---- MODULE Spec2Model ----
(***************************************************************************)
(* Ethogram API: the spreadsheet core (time arithmetic, cell formatter,    *)
(* time-slot matrix builder) of the TypeScript service (services/excel.ts) *)
(* and of the Go service (internal/services/excel_service.go).             *)
(*                                                                         *)
(* Time strings ("14:05") are sequences of one-character strings, so that  *)
(* parsing (split, Number, Sscanf) and formatting (padStart, %02d) are     *)
(* modelled by what they do.  Free-text fields are TLA+ strings.           *)
(***************************************************************************)
EXTENDS Integers, Sequences, FiniteSets, TLC

VARIABLES
    metadata,       \* session metadata: [startTime, endTime]
    observations,   \* the time-slot map: time string -> list of JSON objects
    slots,          \* last generateTimeSlots call: [called, result]
    rel,            \* last convertToRelativeTime call: [impl, time, panic, value]
    cellArg,        \* the subject observation handed to formatCellContent
    cell,           \* last formatCellContent call: [impl, value]
    tsSheet,        \* worksheet built by generateExcelWorkbook: [built, timeSlots, cells]
    goSheet,        \* sheet built by GenerateObservationExcel: [built, panicked, timeSlots, cells]
    calls,          \* builder invocations in progress: id -> [pc, ranged, timeSlots, cells]
    now,            \* Date.now(), in milliseconds
    store,          \* the rate limiter's Map: key -> [count, windowStart]
    db,             \* ids of the rows of the observations table
    req,            \* the HTTP request being handled, or the last one answered
    passes,         \* per observation id, the times at which a share request passed the limiter
    nreq,           \* number of requests received
    file,           \* last spreadsheet file named: [route, patient, date, observerName, filename]
    svc,            \* the Go observation service: table, Create call, email goroutine
    redis,          \* the Go rate limiter: Redis keys, the requests in the middleware
    mig,            \* the migration runner: files, migrations table, applied SQL, runs
    lim             \* direct calls of the in-memory rate limiter: last result, reference store

vars ==
    <<metadata, observations, slots, rel, cellArg, cell, tsSheet, goSheet, calls,
      now, store, db, req, passes, nreq, file,
                svc, redis, mig, lim>>

(***************************************************************************)
(* Characters and decimal numerals                                         *)
(***************************************************************************)
Digits == <<"0", "1", "2", "3", "4", "5", "6", "7", "8", "9">>

IsDigit(c) == \E d \in 1..10 : Digits[d] = c

DigitVal(c) == (CHOOSE d \in 1..10 : Digits[d] = c) - 1

\* value of a non-empty all-digit string
RECURSIVE DecValue(_)
DecValue(s) ==
    IF Len(s) = 0 THEN 0
    ELSE DecValue(SubSeq(s, 1, Len(s) - 1)) * 10 + DigitVal(s[Len(s)])

\* the literal "HH:MM" string of hour h, minute m (input construction)
TimeStr(h, m) ==
    <<Digits[(h \div 10) + 1], Digits[(h % 10) + 1], ":",
      Digits[(m \div 10) + 1], Digits[(m % 10) + 1]>>

\* the literal "HH:MM" string of minute-of-day n
TimeOfDay(n) == TimeStr((n % 1440) \div 60, n % 60)

(***************************************************************************)
(* JavaScript primitives used by services/excel.ts                         *)
(***************************************************************************)
\* the not-a-number value; every number the model's time strings can produce
\* (HH:MM strings, components of two digits) is far above it
NaN == -100000

\* String.prototype.split(':')
RECURSIVE JsSplit(_)
JsSplit(s) ==
    IF \A i \in 1..Len(s) : s[i] # ":" THEN <<s>>
    ELSE LET k == CHOOSE i \in 1..Len(s) :
                    s[i] = ":" /\ \A j \in 1..(i - 1) : s[j] # ":"
         IN <<SubSeq(s, 1, k - 1)>> \o JsSplit(SubSeq(s, k + 1, Len(s)))

\* Number(string): "" is 0, a digit string is its value, anything else NaN
JsNumber(s) ==
    IF Len(s) = 0 THEN 0
    ELSE IF \A i \in 1..Len(s) : IsDigit(s[i]) THEN DecValue(s)
    ELSE NaN

\* parts[i] ?? 0 after .map(Number) (i is the JavaScript index)
JsPart(parts, i) == IF i + 1 <= Len(parts) THEN JsNumber(parts[i + 1]) ELSE 0

JsAdd(a, b) == IF a = NaN \/ b = NaN THEN NaN ELSE a + b

JsSub(a, b) == IF a = NaN \/ b = NaN THEN NaN ELSE a - b

JsMul(a, b) == IF a = NaN \/ b = NaN THEN NaN ELSE a * b

JsLt(a, b) == a # NaN /\ b # NaN /\ a < b

JsLe(a, b) == a # NaN /\ b # NaN /\ a <= b

\* Math.floor(a / b), b > 0
JsFloorDiv(a, b) == IF a = NaN THEN NaN ELSE a \div b

\* a % b, b > 0: the remainder has the sign of the dividend
JsRem(a, b) ==
    IF a = NaN THEN NaN
    ELSE IF a >= 0 THEN a % b
    ELSE 0 - ((0 - a) % b)

\* decimal digits of an integer >= 0
RECURSIVE DecDigits(_)
DecDigits(n) ==
    IF n < 10 THEN <<Digits[n + 1]>>
    ELSE DecDigits(n \div 10) \o <<Digits[(n % 10) + 1]>>

\* Number.prototype.toString() of an integer, or of NaN
JsToString(n) ==
    IF n = NaN THEN <<"N", "a", "N">>
    ELSE IF n < 0 THEN <<"-">> \o DecDigits(0 - n)
    ELSE DecDigits(n)

\* String.prototype.padStart(2, '0')
PadStart2(s) ==
    IF Len(s) >= 2 THEN s
    ELSE IF Len(s) = 1 THEN <<"0">> \o s
    ELSE <<"0", "0">>

(***************************************************************************)
(* services/excel.ts: time arithmetic                                      *)
(***************************************************************************)
\* TimeString with the hour not reduced modulo 24
TimeStringNoWrap(minutes) ==
    LET hours == minutes \div 60
        mins  == minutes % 60
    IN PadStart2(JsToString(hours)) \o <<":">> \o PadStart2(JsToString(mins))

\* the body of the for loop of generateTimeSlots: one slot label
TimeString(minutes) ==
    LET hours == (minutes \div 60) % 24
        mins  == minutes % 60
    IN PadStart2(JsToString(hours)) \o <<":">> \o PadStart2(JsToString(mins))

\* SlotLoop with the loop condition minutes < end
SlotLoopExclusive(startTotalMinutes, endTotalMinutes) ==
    IF JsLt(startTotalMinutes, endTotalMinutes)
    THEN [k \in 1..((endTotalMinutes - startTotalMinutes - 1) \div 5 + 1) |->
             TimeString(startTotalMinutes + 5 * (k - 1))]
    ELSE <<>>

\* for (minutes = start; minutes <= end; minutes += 5) slots.push(...):
\* the loop variable takes the values start, start + 5, ... while <= end
SlotLoop(startTotalMinutes, endTotalMinutes) ==
    IF JsLe(startTotalMinutes, endTotalMinutes)
    THEN [k \in 1..((endTotalMinutes - startTotalMinutes) \div 5 + 1) |->
             TimeString(startTotalMinutes + 5 * (k - 1))]
    ELSE <<>>

generateTimeSlots(startTime, endTime) ==
    IF Len(startTime) = 0 \/ Len(endTime) = 0 THEN <<>>
    ELSE LET startParts == JsSplit(startTime)
             endParts == JsSplit(endTime)
             startHours == JsPart(startParts, 0)
             startMinutes == JsPart(startParts, 1)
             endHours == JsPart(endParts, 0)
             endMinutes == JsPart(endParts, 1)
             startTotalMinutes == JsAdd(JsMul(startHours, 60), startMinutes)
             endTotal == JsAdd(JsMul(endHours, 60), endMinutes)
             endTotalMinutes ==
                 IF JsLt(endTotal, startTotalMinutes)
                 THEN JsAdd(endTotal, 24 * 60)
                 ELSE endTotal
         IN SlotLoop(startTotalMinutes, endTotalMinutes)

\* TsConvertToRelativeTime without the midnight-crossing correction
TsConvertToRelativeTimeNoCrossing(time, startTime) ==
    LET timeParts == JsSplit(time)
        startParts == JsSplit(startTime)
        totalTimeMinutes ==
            JsAdd(JsMul(JsPart(timeParts, 0), 60), JsPart(timeParts, 1))
        totalStartMinutes ==
            JsAdd(JsMul(JsPart(startParts, 0), 60), JsPart(startParts, 1))
        diffMinutes == JsSub(totalTimeMinutes, totalStartMinutes)
    IN JsToString(JsFloorDiv(diffMinutes, 60)) \o <<":">>
           \o PadStart2(JsToString(JsRem(diffMinutes, 60)))

TsConvertToRelativeTime(time, startTime) ==
    LET timeParts == JsSplit(time)
        startParts == JsSplit(startTime)
        timeHours == JsPart(timeParts, 0)
        timeMinutes == JsPart(timeParts, 1)
        startHours == JsPart(startParts, 0)
        startMinutes == JsPart(startParts, 1)
        total == JsAdd(JsMul(timeHours, 60), timeMinutes)
        totalStartMinutes == JsAdd(JsMul(startHours, 60), startMinutes)
        totalTimeMinutes ==
            IF JsLt(total, totalStartMinutes) THEN JsAdd(total, 24 * 60) ELSE total
        diffMinutes == JsSub(totalTimeMinutes, totalStartMinutes)
        hours == JsFloorDiv(diffMinutes, 60)
        minutes == JsRem(diffMinutes, 60)
    IN JsToString(hours) \o <<":">> \o PadStart2(JsToString(minutes))

(***************************************************************************)
(* Go primitives used by internal/services/excel_service.go                *)
(***************************************************************************)
\* the longest prefix of digits of s
RECURSIVE DigitPrefix(_)
DigitPrefix(s) ==
    IF Len(s) = 0 \/ ~IsDigit(s[1]) THEN <<>>
    ELSE <<s[1]>> \o DigitPrefix(Tail(s))

\* parseInt: fmt.Sscanf(s, "%d", &n) reads the leading digits; n stays 0 on failure
parseInt(s) == DecValue(DigitPrefix(s))

\* Go integer division: truncates toward zero
GoDiv(a, b) == IF a >= 0 THEN a \div b ELSE 0 - ((0 - a) \div b)

\* Go remainder: the sign of the dividend
GoRem(a, b) == IF a >= 0 THEN a % b ELSE 0 - ((0 - a) % b)

\* fmt verb %d
GoFmtD(n) == IF n < 0 THEN <<"-">> \o DecDigits(0 - n) ELSE DecDigits(n)

\* fmt verb %02d: zero-padded to width 2, the sign counted in the width
GoFmt02D(n) ==
    IF n < 0 THEN <<"-">> \o DecDigits(0 - n)
    ELSE IF n < 10 THEN <<"0">> \o DecDigits(n)
    ELSE DecDigits(n)

(***************************************************************************)
(* excel_service.go: convertToRelativeTime                                 *)
(* The result is [panic, value]: timeParts[1] is an index out of range     *)
(* when the string holds no colon.                                         *)
(***************************************************************************)
GoConvertToRelativeTime(timeStr, startTimeStr) ==
    LET timeParts == JsSplit(timeStr)
        startParts == JsSplit(startTimeStr)
    IN IF Len(timeParts) < 2 \/ Len(startParts) < 2
       THEN [panic |-> TRUE, value |-> <<>>]
       ELSE LET timeHours == parseInt(timeParts[1])
                timeMinutes == parseInt(timeParts[2])
                startHours == parseInt(startParts[1])
                startMinutes == parseInt(startParts[2])
                total == timeHours * 60 + timeMinutes
                totalStartMinutes == startHours * 60 + startMinutes
                totalTimeMinutes ==
                    IF total < totalStartMinutes THEN total + 24 * 60 ELSE total
                diffMinutes == totalTimeMinutes - totalStartMinutes
                hours == GoDiv(diffMinutes, 60)
                minutes == GoRem(diffMinutes, 60)
            IN [panic |-> FALSE,
                value |-> GoFmtD(hours) \o <<":">> \o GoFmt02D(minutes)]

(***************************************************************************)
(* services/excel.ts: field resolver and cell formatter                    *)
(* A subject observation is a JSON object: a function from the field names *)
(* it holds to strings.  A field it does not hold reads as undefined.      *)
(***************************************************************************)
Undefined == [defined |-> FALSE, str |-> ""]

JsStr(s) == [defined |-> TRUE, str |-> s]

\* observation.field
JsGet(o, f) == IF f \in DOMAIN o THEN JsStr(o[f]) ELSE Undefined

\* truthiness of a string | undefined
Truthy(v) == v.defined /\ v.str # ""

\* resolveOtherField that drops the field when "other" comes without an override
resolveOtherFieldDropsSentinel(value, otherValue) ==
    IF ~Truthy(value) THEN Undefined
    ELSE IF value.str = "other"
         THEN (IF Truthy(otherValue) THEN otherValue ELSE Undefined)
         ELSE value

resolveOtherField(value, otherValue) ==
    IF ~Truthy(value) THEN Undefined
    ELSE IF value.str = "other"
         THEN (IF Truthy(otherValue) THEN otherValue ELSE JsStr("other"))
         ELSE value

\* Array.prototype.join('\n') and strings.Join(parts, "\n")
RECURSIVE JoinLines(_)
JoinLines(parts) ==
    IF Len(parts) = 0 THEN ""
    ELSE IF Len(parts) = 1 THEN parts[1]
    ELSE parts[1] \o "\n" \o JoinLines(Tail(parts))

\* if (v) parts.push(label + v)
PushIf(parts, v, label) == IF Truthy(v) THEN Append(parts, label \o v.str) ELSE parts

\* TsFormatCellContent with the notes line pushed before the description line
TsFormatCellContentNotesFirst(observation) ==
    LET p0 == <<"x">>
        p1 == PushIf(p0, JsGet(observation, "location"), "Loc: ")
        p2 == PushIf(p1, resolveOtherField(JsGet(observation, "object"),
                                           JsGet(observation, "objectOther")), "Object: ")
        p3 == PushIf(p2, resolveOtherField(JsGet(observation, "animal"),
                                           JsGet(observation, "animalOther")), "Animal: ")
        p4 == PushIf(p3, resolveOtherField(JsGet(observation, "interactionType"),
                                           JsGet(observation, "interactionTypeOther")),
                     "Interaction: ")
        p5 == PushIf(p4, JsGet(observation, "notes"), "Notes: ")
        p6 == PushIf(p5, JsGet(observation, "description"), "Description: ")
    IN IF Len(p6) > 1 THEN JoinLines(p6) ELSE "x"

TsFormatCellContent(observation) ==
    LET p0 == <<"x">>
        p1 == PushIf(p0, JsGet(observation, "location"), "Loc: ")
        objectValue == resolveOtherField(JsGet(observation, "object"),
                                         JsGet(observation, "objectOther"))
        p2 == PushIf(p1, objectValue, "Object: ")
        animalValue == resolveOtherField(JsGet(observation, "animal"),
                                         JsGet(observation, "animalOther"))
        p3 == PushIf(p2, animalValue, "Animal: ")
        interactionValue == resolveOtherField(JsGet(observation, "interactionType"),
                                              JsGet(observation, "interactionTypeOther"))
        p4 == PushIf(p3, interactionValue, "Interaction: ")
        p5 == PushIf(p4, JsGet(observation, "description"), "Description: ")
        p6 == PushIf(p5, JsGet(observation, "notes"), "Notes: ")
    IN IF Len(p6) > 1 THEN JoinLines(p6) ELSE "x"

(***************************************************************************)
(* excel_service.go: cell formatter                                        *)
(***************************************************************************)
SubjectFields ==
    {"behavior", "location", "notes", "object", "objectOther", "animal", "animalOther",
     "interactionType", "interactionTypeOther", "description"}

\* models.SubjectObservation decoded from the JSON object: a missing field is ""
SubjectObservation(o) == [f \in SubjectFields |-> IF f \in DOMAIN o THEN o[f] ELSE ""]

\* if primary != "" { v := primary; if primary == "other" && other != "" { v = other };
\*                    parts = append(parts, label + v) }
GoAppendResolved(parts, primary, other, label) ==
    IF primary # ""
    THEN LET v == IF primary = "other" /\ other # "" THEN other ELSE primary
         IN Append(parts, label \o v)
    ELSE parts

\* if v != "" { parts = append(parts, label + v) }
GoAppendIf(parts, v, label) == IF v # "" THEN Append(parts, label \o v) ELSE parts

GoFormatCellContent(subject) ==
    LET p0 == <<"x">>
        p1 == GoAppendIf(p0, subject.location, "Loc: ")
        p2 == GoAppendResolved(p1, subject.object, subject.objectOther, "Object: ")
        p3 == GoAppendResolved(p2, subject.animal, subject.animalOther, "Animal: ")
        p4 == GoAppendResolved(p3, subject.interactionType, subject.interactionTypeOther,
                               "Interaction: ")
        p5 == GoAppendIf(p4, subject.description, "Description: ")
        p6 == GoAppendIf(p5, subject.notes, "Notes: ")
    IN IF Len(p6) > 1 THEN JoinLines(p6) ELSE "x"

(***************************************************************************)
(* services/excel.ts: generateExcelWorkbook                                *)
(* A worksheet is a function from <<row, column>> to the cell's value.     *)
(***************************************************************************)
BEHAVIOR_ROW_MAPPING ==
    <<[code |-> "eating_food_platform",
       label |-> "Eating - On Food Platform"],
      [code |-> "eating_elsewhere",
       label |-> "Eating - Elsewhere (Note Location)"],
      [code |-> "walking_ground",
       label |-> "Locomotion - Walking on Ground"],
      [code |-> "walking_perch",
       label |-> "Locomotion - Walking on Perch (Note Location)"],
      [code |-> "flying",
       label |-> "Locomotion - Flying"],
      [code |-> "jumping",
       label |-> "Locomotion - Jumping"],
      [code |-> "repetitive_locomotion",
       label |-> "Repetitive Locomotion (Same movement 3+ times in a row)"],
      [code |-> "drinking",
       label |-> "Drinking (Note source if not from the water bowl)"],
      [code |-> "bathing",
       label |-> "Bathing"],
      [code |-> "preening",
       label |-> "Preening/Grooming (Note Location)"],
      [code |-> "repetitive_preening",
       label |-> "Repetitive Preening/Feather Damage (Plucking, Mutilation, Etc.)"],
      [code |-> "nesting",
       label |-> "Nesting"],
      [code |-> "vocalizing",
       label |-> "Vocalizing"],
      [code |-> "resting_alert",
       label |-> "Resting on Perch/Ground - Alert (Note Location)"],
      [code |-> "resting_not_alert",
       label |-> "Resting on Perch/Ground - Not Alert (Note Location)"],
      [code |-> "resting_unknown",
       label |-> "Resting on Perch/Ground - Status Unknown (Note Location)"],
      [code |-> "interacting_object",
       label |-> "Interacting with Inanimate Object (Note Object)"],
      [code |-> "interacting_animal",
       label |-> "Interacting with Other Animal (Note Animal & Type of Interaction)"],
      [code |-> "aggression",
       label |-> "Aggression or Defensive Posturing"],
      [code |-> "not_visible",
       label |-> "Not Visible"],
      [code |-> "other",
       label |-> "Other"]>>

\* Object.keys(BEHAVIOR_ROW_MAPPING): insertion order
behaviorRows == [i \in 1..Len(BEHAVIOR_ROW_MAPPING) |-> BEHAVIOR_ROW_MAPPING[i].code]

\* subjectObservations.filter((obs) => obs.behavior === behaviorValue)
matchingObs(subjectObservations, behaviorValue) ==
    SelectSeq(subjectObservations, LAMBDA obs : JsGet(obs, "behavior") = JsStr(behaviorValue))

\* rows 1 to 3: title, date, time window, aviary, patient, observer, "Time:"
TsHeaderBlock(md) ==
    (<<1, 1>> :> "Rehabilitation Raptor Ethogram") @@
    (<<1, 2>> :> "Date:") @@
    (<<1, 3>> :> md.date) @@
    (<<1, 10>> :> "Time Window:") @@
    (<<1, 11>> :> md.startTime \o <<" ", "-", " ">> \o md.endTime) @@
    (<<2, 1>> :> "Aviary: " \o md.aviary) @@
    (<<2, 2>> :> "Patient(s): " \o md.patient) @@
    (<<2, 10>> :> "Observer:") @@
    (<<2, 11>> :> md.observerName) @@
    (<<3, 2>> :> "Time:")

\* row 4: timeSlots.forEach((time, index) => getCell(4, index + 2).value = relative)
TsHeaderRow(timeSlots, md) ==
    [a \in {<<4, k + 1>> : k \in 1..Len(timeSlots)} |->
        TsConvertToRelativeTime(timeSlots[a[2] - 1], md.startTime)]

\* column A of rows 5+: getCell(5 + index, 1).value = BEHAVIOR_ROW_MAPPING[behaviorValue]
TsLabelColumn ==
    [a \in {<<4 + i, 1>> : i \in 1..Len(behaviorRows)} |->
        BEHAVIOR_ROW_MAPPING[a[1] - 4].label]

\* the observation marks: for each behavior row and each time slot, the first
\* observation of the slot's list that matches the row's behavior
TsMarks(timeSlots, obsMap) ==
    LET hit == {p \in (1..Len(behaviorRows)) \X (1..Len(timeSlots)) :
                   /\ timeSlots[p[2]] \in DOMAIN obsMap
                   /\ Len(matchingObs(obsMap[timeSlots[p[2]]], behaviorRows[p[1]])) > 0}
    IN [a \in {<<4 + p[1], p[2] + 1>> : p \in hit} |->
           TsFormatCellContent(
               matchingObs(obsMap[timeSlots[a[2] - 1]], behaviorRows[a[1] - 4])[1])]

\* the comments row: 5 + behaviorRows.length + 2
TsComments ==
    (<<5 + Len(behaviorRows) + 2, 1>> :>
        "Comments (Abnormal Environmental Factors, Plant Growth, Etc):")

generateExcelWorkbook(md, obsMap) ==
    LET timeSlots == generateTimeSlots(md.startTime, md.endTime)
    IN [built |-> TRUE,
        timeSlots |-> timeSlots,
        cells |-> TsComments @@ TsMarks(timeSlots, obsMap) @@ TsLabelColumn
                    @@ TsHeaderRow(timeSlots, md) @@ TsHeaderBlock(md)]

(***************************************************************************)
(* excel_service.go: GenerateObservationExcel                              *)
(***************************************************************************)
behaviorLabels ==
    ("eating_food_platform" :> "Eating - On Food Platform") @@
    ("eating_elsewhere" :> "Eating - Elsewhere (Note Location)") @@
    ("walking_ground" :> "Locomotion - Walking on Ground") @@
    ("walking_perch" :> "Locomotion - Walking on Perch (Note Location)") @@
    ("flying" :> "Locomotion - Flying") @@
    ("jumping" :> "Locomotion - Jumping") @@
    ("repetitive_locomotion" :> "Repetitive Locomotion (Same movement 3+ times in a row)") @@
    ("drinking" :> "Drinking (Note source if not from the water bowl)") @@
    ("bathing" :> "Bathing") @@
    ("preening" :> "Preening/Grooming (Note Location)") @@
    ("repetitive_preening" :> "Repetitive Preening/Feather Damage (Plucking, Mutilation, Etc.)") @@
    ("nesting" :> "Nesting") @@
    ("vocalizing" :> "Vocalizing") @@
    ("resting_alert" :> "Resting on Perch/Ground - Alert (Note Location)") @@
    ("resting_not_alert" :> "Resting on Perch/Ground - Not Alert (Note Location)") @@
    ("resting_unknown" :> "Resting on Perch/Ground - Status Unknown (Note Location)") @@
    ("interacting_object" :> "Interacting with Inanimate Object (Note Object)") @@
    ("interacting_animal" :> "Interacting with Other Animal (Note Animal & Type of Interaction)") @@
    ("aggression" :> "Aggression or Defensive Posturing") @@
    ("not_visible" :> "Not Visible") @@
    ("other" :> "Other")

\* behaviorOrder with one entry lost (the list and the label map out of step)
behaviorOrderWithoutJumping ==
    [i \in 1..(Len(BEHAVIOR_ROW_MAPPING) - 1) |->
        BEHAVIOR_ROW_MAPPING[IF i < 6 THEN i ELSE i + 1].code]

behaviorOrder ==
    <<"eating_food_platform",
      "eating_elsewhere",
      "walking_ground",
      "walking_perch",
      "flying",
      "jumping",
      "repetitive_locomotion",
      "drinking",
      "bathing",
      "preening",
      "repetitive_preening",
      "nesting",
      "vocalizing",
      "resting_alert",
      "resting_not_alert",
      "resting_unknown",
      "interacting_object",
      "interacting_animal",
      "aggression",
      "not_visible",
      "other">>

\* byte order of the characters of the model's strings
Alphabet == Digits \o <<":", "x">>

CharOrd(c) == CHOOSE i \in 1..Len(Alphabet) : Alphabet[i] = c

\* a < b in the byte-wise lexicographic order of Go strings
RECURSIVE StrLess(_, _)
StrLess(a, b) ==
    IF Len(b) = 0 THEN FALSE
    ELSE IF Len(a) = 0 THEN TRUE
    ELSE IF a[1] # b[1] THEN CharOrd(a[1]) < CharOrd(b[1])
    ELSE StrLess(Tail(a), Tail(b))

\* sort.Strings over the keys of the map
RECURSIVE SortStrings(_)
SortStrings(S) ==
    IF S = {} THEN <<>>
    ELSE LET least == CHOOSE x \in S : \A y \in S \ {x} : StrLess(x, y)
         IN <<least>> \o SortStrings(S \ {least})

Letters ==
    <<"A", "B", "C", "D", "E", "F", "G", "H", "I", "J", "K", "L", "M",
      "N", "O", "P", "Q", "R", "S", "T", "U", "V", "W", "X", "Y", "Z">>

\* for index > 0 { index--; result = letter(index % 26) + result; index /= 26 }
RECURSIVE indexToColumn(_)
indexToColumn(index) ==
    IF index <= 0 THEN <<>>
    ELSE indexToColumn((index - 1) \div 26) \o <<Letters[((index - 1) % 26) + 1]>>

\* fmt.Sprintf("%s%d", col, rowIndex)
CellName(col, rowIndex) == col \o GoFmtD(rowIndex)

\* the column number of a column name (excelize reads the name back)
RECURSIVE ColumnNameToNumber(_)
ColumnNameToNumber(name) ==
    IF Len(name) = 0 THEN 0
    ELSE ColumnNameToNumber(SubSeq(name, 1, Len(name) - 1)) * 26
         + (CHOOSE i \in 1..26 : Letters[i] = name[Len(name)])

\* the <<row, column>> of a cell name such as "B4" (excelize SetCellValue)
CellNameToCoordinates(name) ==
    LET n == Cardinality({i \in 1..Len(name) : ~IsDigit(name[i])})
    IN <<DecValue(SubSeq(name, n + 1, Len(name))), ColumnNameToNumber(SubSeq(name, 1, n))>>

\* obs.TimeSlots: the JSON map decoded into map[string][]SubjectObservation
TimeSlots(obsMap) ==
    [k \in DOMAIN obsMap |->
        [i \in 1..Len(obsMap[k]) |-> SubjectObservation(obsMap[k][i])]]

GoHeaderBlock(md) ==
    (CellNameToCoordinates(<<"A", "1">>) :> "Rehabilitation Raptor Ethogram") @@
    (CellNameToCoordinates(<<"B", "1">>) :> "Date:") @@
    (CellNameToCoordinates(<<"C", "1">>) :> md.date) @@
    (CellNameToCoordinates(<<"J", "1">>) :> "Time Window:") @@
    (CellNameToCoordinates(<<"K", "1">>) :> md.startTime \o <<" ", "-", " ">> \o md.endTime) @@
    (CellNameToCoordinates(<<"A", "2">>) :> "Aviary: " \o md.aviary) @@
    (CellNameToCoordinates(<<"B", "2">>) :> "Patient(s): " \o "Sayyida") @@
    (CellNameToCoordinates(<<"J", "2">>) :> "Observer:") @@
    (CellNameToCoordinates(<<"K", "2">>) :> md.observerName) @@
    (CellNameToCoordinates(<<"B", "3">>) :> "Time:")

\* row 4: for i, timeKey := range timeSlots { SetCellValue(col(i + 2) + "4", relative) }
GoHeaderRow(timeSlots, md) ==
    [a \in {CellNameToCoordinates(CellName(indexToColumn(k + 1), 4)) :
                k \in 1..Len(timeSlots)} |->
        LET k == CHOOSE j \in 1..Len(timeSlots) :
                     CellNameToCoordinates(CellName(indexToColumn(j + 1), 4)) = a
        IN GoConvertToRelativeTime(timeSlots[k], md.startTime).value]

\* column A of rows 5+: SetCellValue("A<5+i>", behaviorLabels[behaviorValue])
GoLabelColumn ==
    [a \in {CellNameToCoordinates(<<"A">> \o GoFmtD(4 + i)) : i \in 1..Len(behaviorOrder)} |->
        LET i == CHOOSE j \in 1..Len(behaviorOrder) :
                     CellNameToCoordinates(<<"A">> \o GoFmtD(4 + j)) = a
        IN IF behaviorOrder[i] \in DOMAIN behaviorLabels
           THEN behaviorLabels[behaviorOrder[i]]
           ELSE ""]

\* the observation marks: len(subjects) > 0 && subjects[0].Behavior == behaviorValue
GoMarks(timeSlots, slotMap) ==
    LET hit == {p \in (1..Len(behaviorOrder)) \X (1..Len(timeSlots)) :
                   /\ Len(slotMap[timeSlots[p[2]]]) > 0
                   /\ slotMap[timeSlots[p[2]]][1].behavior = behaviorOrder[p[1]]}
        addr(p) == CellNameToCoordinates(CellName(indexToColumn(p[2] + 1), 4 + p[1]))
    IN [a \in {addr(p) : p \in hit} |->
           LET p == CHOOSE q \in hit : addr(q) = a
           IN GoFormatCellContent(slotMap[timeSlots[p[2]]][1])]

\* the comments row: 5 + len(behaviorOrder) + 2 (no environmental notes)
GoComments ==
    (CellNameToCoordinates(<<"A">> \o GoFmtD(5 + Len(behaviorOrder) + 2)) :>
        "Comments (Abnormal Environmental Factors, Plant Growth, Etc):")

\* the slice of keys left in the order the map was ranged over
SliceLeftUnsorted(keys) == keys

\* sort.Strings(timeSlots) over the slice appended to while ranging over the map
SortSlice(keys) == SortStrings({keys[i] : i \in 1..Len(keys)})

GenerateObservationExcel(md, obsMap) ==
    LET slotMap == TimeSlots(obsMap)
        timeSlots == SortStrings(DOMAIN slotMap)
    IN IF \E k \in 1..Len(timeSlots) :
              GoConvertToRelativeTime(timeSlots[k], md.startTime).panic
       THEN [built |-> FALSE, panicked |-> TRUE, timeSlots |-> timeSlots, cells |-> <<>>]
       ELSE [built |-> TRUE, panicked |-> FALSE, timeSlots |-> timeSlots,
             cells |-> GoComments @@ GoMarks(timeSlots, slotMap) @@ GoLabelColumn
                         @@ GoHeaderRow(timeSlots, md) @@ GoHeaderBlock(md)]

(***************************************************************************)
(* Values of the variables before any call                                 *)
(***************************************************************************)
NoMetadata == [startTime |-> <<>>, endTime |-> <<>>]

NoObservations == <<>>

NoCalls == <<>>

\* the Go service, the Redis limiter, the migration runner and the limiter's
\* direct callers before they are used
NoSvc == <<>>

NoRedis == <<>>

NoMig == <<>>

NoLim == <<>>

LaterIdle ==
    /\ svc = NoSvc
    /\ redis = NoRedis
    /\ mig = NoMig
    /\ lim = NoLim

NoFile == [route |-> "none", patient |-> "", date |-> "", observerName |-> "", filename |-> ""]

\* no request in flight
NoRequest ==
    [kind |-> "none", pc |-> "none", id |-> 0, startTime |-> <<>>, endTime |-> <<>>,
     emails |-> [present |-> FALSE, list |-> <<>>], i |-> 0, emailsSent |-> 0,
     generated |-> 0, buffer |-> 0, sends |-> <<>>, status |-> 0, code |-> "",
     submissionId |-> 0, queries |-> 0]

\* the server after start-up: empty table, empty rate-limit store, no request
RoutesIdle ==
    /\ now = 0
    /\ store = <<>>
    /\ db = {}
    /\ req = NoRequest
    /\ passes = <<>>
    /\ nreq = 0

NoSlots == [called |-> FALSE, result |-> <<>>]

NoRel == [impl |-> "none", time |-> <<>>, panic |-> FALSE, value |-> <<>>]

NoCellArg == [behavior |-> ""]

NoCell == [impl |-> "none", value |-> ""]

NoTsSheet == [built |-> FALSE, timeSlots |-> <<>>, cells |-> <<>>]

NoGoSheet == [built |-> FALSE, panicked |-> FALSE, timeSlots |-> <<>>, cells |-> <<>>]

(***************************************************************************)
(* Time arithmetic applied to sessions: SpecTime                           *)
(***************************************************************************)
\* longest short session drawn, in minutes from the start to the end
MaxSpan == 20

\* a long session ends at most MaxGap minutes before the start comes round again
MaxGap == 5

StartTimes == {h * 60 + m : h \in {0, 14, 23}, m \in {0, 3, 5, 30, 50, 55, 59}}

\* ends up to MaxSpan minutes after the start (short sessions, crossing midnight
\* when the start is near 23:59) and up to MaxGap minutes before it (sessions of
\* almost 24 hours)
EndTimes(s) ==
    {(s + d) % 1440 : d \in 0..MaxSpan} \cup {(s + 1440 - d) % 1440 : d \in 1..MaxGap}

Sessions ==
    {[startTime |-> TimeOfDay(s), endTime |-> TimeOfDay(e)] :
        <<s, e>> \in {p \in StartTimes \X (0..1439) : p[2] \in EndTimes(p[1])}}

\* times handed to convertToRelativeTime for a session
RelTimes(md) ==
    {md.startTime, md.endTime, TimeOfDay(5), TimeOfDay(725), TimeOfDay(1435)}

InitTime ==
    /\ metadata \in Sessions
    /\ observations = NoObservations
    /\ slots = NoSlots
    /\ rel = NoRel
    /\ cellArg = NoCellArg
    /\ cell = NoCell
    /\ tsSheet = NoTsSheet
    /\ goSheet = NoGoSheet
    /\ calls = NoCalls
    /\ RoutesIdle
    /\ file = NoFile
    /\ LaterIdle

CallGenerateTimeSlots ==
    /\ ~slots.called
    /\ slots' = [called |-> TRUE,
                 result |-> generateTimeSlots(metadata.startTime, metadata.endTime)]
    /\ UNCHANGED <<metadata, observations, rel, cellArg, cell, tsSheet, goSheet, calls,
                 now, store, db, req, passes, nreq, file,
                svc, redis, mig, lim>>

CallTsConvertToRelativeTime ==
    /\ \E t \in RelTimes(metadata) :
          rel' = [impl |-> "ts", time |-> t, panic |-> FALSE,
                  value |-> TsConvertToRelativeTime(t, metadata.startTime)]
    /\ UNCHANGED <<metadata, observations, slots, cellArg, cell, tsSheet, goSheet, calls,
                 now, store, db, req, passes, nreq, file,
                svc, redis, mig, lim>>

CallGoConvertToRelativeTime ==
    /\ \E t \in RelTimes(metadata) :
          LET r == GoConvertToRelativeTime(t, metadata.startTime)
          IN rel' = [impl |-> "go", time |-> t, panic |-> r.panic, value |-> r.value]
    /\ UNCHANGED <<metadata, observations, slots, cellArg, cell, tsSheet, goSheet, calls,
                 now, store, db, req, passes, nreq, file,
                svc, redis, mig, lim>>

NextTime ==
    \/ CallGenerateTimeSlots
    \/ CallTsConvertToRelativeTime
    \/ CallGoConvertToRelativeTime

SpecTime == InitTime /\ [][NextTime]_vars

(***************************************************************************)
(* Cell formatter applied to subject observations: SpecCell                *)
(***************************************************************************)
\* marks a field left out of the JSON object
Absent == "<absent>"

FieldChoices ==
    [behavior : {"flying"},
     location : {Absent, "", "12"},
     object : {Absent, "", "other", "newspaper"},
     objectOther : {Absent, "", "Custom toy"},
     animal : {Absent, "other", "crow"},
     animalOther : {Absent, "hawk"},
     interactionType : {Absent, "other", "watching"},
     interactionTypeOther : {"", "chasing"},
     description : {Absent, "Wing stretch"},
     notes : {"", "Alert"}]

\* the JSON object holding the fields chosen
JsonObject(c) == [f \in {g \in DOMAIN c : c[g] # Absent} |-> c[f]]

CellArgs == {JsonObject(c) : c \in FieldChoices}

InitCell ==
    /\ metadata = NoMetadata
    /\ observations = NoObservations
    /\ slots = NoSlots
    /\ rel = NoRel
    /\ cellArg \in CellArgs
    /\ cell = NoCell
    /\ tsSheet = NoTsSheet
    /\ goSheet = NoGoSheet
    /\ calls = NoCalls
    /\ RoutesIdle
    /\ file = NoFile
    /\ LaterIdle

CallTsFormatCellContent ==
    /\ cell' = [impl |-> "ts", value |-> TsFormatCellContent(cellArg)]
    /\ UNCHANGED <<metadata, observations, slots, rel, cellArg, tsSheet, goSheet, calls,
                 now, store, db, req, passes, nreq, file,
                svc, redis, mig, lim>>

CallGoFormatCellContent ==
    /\ cell' = [impl |-> "go", value |-> GoFormatCellContent(SubjectObservation(cellArg))]
    /\ UNCHANGED <<metadata, observations, slots, rel, cellArg, tsSheet, goSheet, calls,
                 now, store, db, req, passes, nreq, file,
                svc, redis, mig, lim>>

NextCell ==
    \/ CallTsFormatCellContent
    \/ CallGoFormatCellContent

SpecCell == InitCell /\ [][NextCell]_vars

(***************************************************************************)
(* The matrix builders applied to sessions and time-slot maps: SpecExcel   *)
(***************************************************************************)
\* most subject observations held by a time-slot map, over all its keys
MaxObs == 2

\* the subject observations the maps are filled with
ObsValues ==
    {[behavior |-> "flying"],
     [behavior |-> "flying", location |-> "G", object |-> "other",
      objectOther |-> "Custom toy"],
     [behavior |-> "resting_alert", location |-> "12", notes |-> "Alert"],
     [behavior |-> "dancing", notes |-> "Not in the catalog"]}

\* lists of at most n subject observations
ListsUpTo(n) == UNION {[1..j -> ObsValues] : j \in 0..n}

\* observations held by a map
RECURSIVE CountObs(_)
CountObs(m) ==
    IF DOMAIN m = {} THEN 0
    ELSE LET k == CHOOSE x \in DOMAIN m : TRUE
         IN Len(m[k]) + CountObs([x \in DOMAIN m \ {k} |-> m[x]])

\* every map whose keys are among keys and which holds at most budget observations
RECURSIVE MapsOver(_, _)
MapsOver(keys, budget) ==
    IF keys = {} THEN {<<>>}
    ELSE LET k == CHOOSE x \in keys : TRUE
             rest == MapsOver(keys \ {k}, budget)
         IN rest \cup UNION {{(k :> l) @@ m : l \in ListsUpTo(budget - CountObs(m))} :
                                m \in rest}

\* the sessions, each with the keys its maps may hold: slots of the session, a key
\* off the 5-minute grid, a key before the start, keys after the end
ExcelCases ==
    {[startTime |-> TimeStr(14, 0), endTime |-> TimeStr(14, 10),
      keys |-> {TimeStr(14, 0), TimeStr(14, 5), TimeStr(14, 3)}],
     [startTime |-> TimeStr(23, 55), endTime |-> TimeStr(0, 5),
      keys |-> {TimeStr(23, 55), TimeStr(0, 0), TimeStr(0, 10)}],
     [startTime |-> TimeStr(14, 0), endTime |-> TimeStr(14, 7),
      keys |-> {TimeStr(14, 0), TimeStr(14, 5), TimeStr(14, 10)}],
     [startTime |-> TimeStr(9, 0), endTime |-> TimeStr(9, 0),
      keys |-> {TimeStr(9, 0), TimeStr(9, 5), TimeStr(8, 55)}],
     [startTime |-> TimeStr(14, 0), endTime |-> TimeStr(16, 15),
      keys |-> {TimeStr(14, 0), TimeStr(16, 5), TimeStr(16, 15)}]}

InitExcel ==
    /\ \E c \in ExcelCases :
          /\ metadata = [startTime |-> c.startTime, endTime |-> c.endTime,
                         date |-> "2025-11-29", aviary |-> "Sayyida's Cove",
                         patient |-> "Sayyida", observerName |-> "Test Observer"]
          /\ observations \in MapsOver(c.keys, MaxObs)
    /\ slots = NoSlots
    /\ rel = NoRel
    /\ cellArg = NoCellArg
    /\ cell = NoCell
    /\ tsSheet = NoTsSheet
    /\ goSheet = NoGoSheet
    /\ calls = NoCalls
    /\ RoutesIdle
    /\ file = NoFile
    /\ LaterIdle

CallGenerateExcelWorkbook ==
    /\ ~tsSheet.built
    /\ tsSheet' = generateExcelWorkbook(metadata, observations)
    /\ UNCHANGED <<metadata, observations, slots, rel, cellArg, cell, goSheet, calls,
                 now, store, db, req, passes, nreq, file,
                svc, redis, mig, lim>>

CallGenerateObservationExcel ==
    /\ ~goSheet.built /\ ~goSheet.panicked
    /\ goSheet' = GenerateObservationExcel(metadata, observations)
    /\ UNCHANGED <<metadata, observations, slots, rel, cellArg, cell, tsSheet, calls,
                 now, store, db, req, passes, nreq, file,
                svc, redis, mig, lim>>

NextExcel ==
    \/ CallGenerateExcelWorkbook
    \/ CallGenerateObservationExcel

SpecExcel == InitExcel /\ [][NextExcel]_vars

(***************************************************************************)
(* Time arithmetic and builders applied to loosely shaped times: SpecLoose *)
(***************************************************************************)
\* well-formed times, a time without colon, times with a non-numeric component
LooseTimes ==
    {TimeStr(14, 0), TimeStr(14, 10), <<"1", "4">>,
     <<"1", "4", ":", "x", "x">>, <<"x", "x", ":", "0", "5">>}

\* the empty map, and the maps holding one observation under one key
LooseMaps == {<<>>} \cup {(k :> <<[behavior |-> "flying"]>>) : k \in LooseTimes}

InitLoose ==
    /\ \E s \in LooseTimes, e \in LooseTimes :
          metadata = [startTime |-> s, endTime |-> e,
                      date |-> "2025-11-29", aviary |-> "Sayyida's Cove",
                      patient |-> "Sayyida", observerName |-> "Test Observer"]
    /\ observations \in LooseMaps
    /\ slots = NoSlots
    /\ rel = NoRel
    /\ cellArg = NoCellArg
    /\ cell = NoCell
    /\ tsSheet = NoTsSheet
    /\ goSheet = NoGoSheet
    /\ calls = NoCalls
    /\ RoutesIdle
    /\ file = NoFile
    /\ LaterIdle

NextLoose ==
    \/ CallGenerateTimeSlots
    \/ CallTsConvertToRelativeTime
    \/ CallGoConvertToRelativeTime
    \/ CallGenerateExcelWorkbook
    \/ CallGenerateObservationExcel

SpecLoose == InitLoose /\ [][NextLoose]_vars

(***************************************************************************)
(* Two invocations of each builder on the same input, interleaved: SpecPure *)
(* generateExcelWorkbook has no await: it builds the workbook in one step, *)
(* generateExcelBuffer then awaits writeBuffer.  GenerateObservationExcel  *)
(* runs on the caller's goroutine: its statements interleave with those of *)
(* another call, and ranging over obs.TimeSlots visits the keys in an      *)
(* order the runtime chooses.                                              *)
(***************************************************************************)
Invocations == [impl : {"ts", "go"}, n : {1, 2}]

\* every ordering of the elements of S
RECURSIVE Orderings(_)
Orderings(S) ==
    IF S = {} THEN {<<>>}
    ELSE UNION {{<<x>> \o o : o \in Orderings(S \ {x})} : x \in S}

PureInputs ==
    {[startTime |-> TimeStr(14, 0), endTime |-> TimeStr(14, 10), map |-> <<>>],
     [startTime |-> TimeStr(14, 0), endTime |-> TimeStr(14, 10),
      map |-> (TimeStr(14, 0) :> <<[behavior |-> "flying"]>>)],
     [startTime |-> TimeStr(14, 0), endTime |-> TimeStr(14, 10),
      map |-> (TimeStr(14, 0) :> <<[behavior |-> "flying"]>>) @@
              (TimeStr(14, 5) :> <<[behavior |-> "resting_alert", location |-> "12",
                                    notes |-> "Alert"]>>)],
     [startTime |-> TimeStr(14, 0), endTime |-> TimeStr(14, 10),
      map |-> (TimeStr(14, 10) :> <<[behavior |-> "flying"]>>) @@
              (TimeStr(14, 0) :> <<[behavior |-> "jumping"]>>) @@
              (TimeStr(14, 5) :> <<[behavior |-> "flying", location |-> "G",
                                    object |-> "other", objectOther |-> "Custom toy"]>>)],
     [startTime |-> TimeStr(23, 55), endTime |-> TimeStr(0, 5),
      map |-> (TimeStr(23, 55) :> <<[behavior |-> "flying"]>>) @@
              (TimeStr(0, 0) :> <<[behavior |-> "resting_alert", location |-> "12",
                                   notes |-> "Alert"]>>)]}

IdleCall == [pc |-> "idle", ranged |-> <<>>, timeSlots |-> <<>>, cells |-> <<>>]

InitPure ==
    /\ \E i \in PureInputs :
          /\ metadata = [startTime |-> i.startTime, endTime |-> i.endTime,
                         date |-> "2025-11-29", aviary |-> "Sayyida's Cove",
                         patient |-> "Sayyida", observerName |-> "Test Observer"]
          /\ observations = i.map
    /\ slots = NoSlots
    /\ rel = NoRel
    /\ cellArg = NoCellArg
    /\ cell = NoCell
    /\ tsSheet = NoTsSheet
    /\ goSheet = NoGoSheet
    /\ calls = [c \in Invocations |-> IdleCall]
    /\ RoutesIdle
    /\ file = NoFile
    /\ LaterIdle

PureFrame ==
    UNCHANGED <<metadata, observations, slots, rel, cellArg, cell, tsSheet, goSheet,
                now, store, db, req, passes, nreq, file,
                svc, redis, mig, lim>>

\* generateExcelWorkbook(data): the whole workbook, no await inside
TsBuildWorkbook(c) ==
    /\ c.impl = "ts" /\ calls[c].pc = "idle"
    /\ LET w == generateExcelWorkbook(metadata, observations)
       IN calls' = [calls EXCEPT ![c] = [pc |-> "built", ranged |-> <<>>,
                                         timeSlots |-> w.timeSlots, cells |-> w.cells]]
    /\ PureFrame

\* await workbook.xlsx.writeBuffer()
TsWriteBuffer(c) ==
    /\ c.impl = "ts" /\ calls[c].pc = "built"
    /\ calls' = [calls EXCEPT ![c].pc = "done"]
    /\ PureFrame

\* for timeKey := range obs.TimeSlots { timeSlots = append(timeSlots, timeKey) }
GoRangeKeys(c) ==
    /\ c.impl = "go" /\ calls[c].pc = "idle"
    /\ \E o \in Orderings(DOMAIN TimeSlots(observations)) :
          calls' = [calls EXCEPT ![c] = [pc |-> "ranged", ranged |-> o,
                                         timeSlots |-> o, cells |-> <<>>]]
    /\ PureFrame

\* sort.Strings(timeSlots)
GoSortKeys(c) ==
    /\ c.impl = "go" /\ calls[c].pc = "ranged"
    /\ calls' = [calls EXCEPT ![c].pc = "sorted",
                              ![c].timeSlots = SortSlice(calls[c].timeSlots)]
    /\ PureFrame

\* rows 1 to 4; convertToRelativeTime panics on a key or start without colon
GoWriteHeader(c) ==
    /\ c.impl = "go" /\ calls[c].pc = "sorted"
    /\ IF \E k \in 1..Len(calls[c].timeSlots) :
             GoConvertToRelativeTime(calls[c].timeSlots[k], metadata.startTime).panic
       THEN calls' = [calls EXCEPT ![c].pc = "panicked"]
       ELSE calls' = [calls EXCEPT ![c].pc = "header",
                                   ![c].cells = GoHeaderRow(calls[c].timeSlots, metadata)
                                                  @@ GoHeaderBlock(metadata)]
    /\ PureFrame

\* rows 5+: labels and observation marks
GoWriteRows(c) ==
    /\ c.impl = "go" /\ calls[c].pc = "header"
    /\ calls' = [calls EXCEPT ![c].pc = "rows",
                              ![c].cells = GoMarks(calls[c].timeSlots, TimeSlots(observations))
                                             @@ GoLabelColumn @@ calls[c].cells]
    /\ PureFrame

\* the comments row, then f.WriteToBuffer()
GoWriteComments(c) ==
    /\ c.impl = "go" /\ calls[c].pc = "rows"
    /\ calls' = [calls EXCEPT ![c].pc = "done",
                              ![c].cells = GoComments @@ calls[c].cells]
    /\ PureFrame

NextPure ==
    \E c \in Invocations :
        \/ TsBuildWorkbook(c)
        \/ TsWriteBuffer(c)
        \/ GoRangeKeys(c)
        \/ GoSortKeys(c)
        \/ GoWriteHeader(c)
        \/ GoWriteRows(c)
        \/ GoWriteComments(c)

SpecPure == InitPure /\ [][NextPure]_vars

(***************************************************************************)
(* routes/observations.ts (POST /submit, POST /:id/share),                 *)
(* utils/rateLimit.ts, services/email.ts: SpecRoutes                       *)
(* A handler runs from one await to the next in one step.  Handlers share  *)
(* only the table and the rate-limit store; one request is followed from   *)
(* its arrival to its response, then the next one arrives.  The database,  *)
(* the spreadsheet generation and the mail provider each succeed or fail   *)
(* as the environment chooses.                                             *)
(***************************************************************************)
\* SHARE_RATE_LIMIT.maxRequests
maxRequests == 3

\* SHARE_RATE_LIMIT.windowMs
windowMs == 60 * 60 * 1000

CLEANUP_INTERVAL == 10 * 60 * 1000

\* requests received in a run
MaxRequests == 4

\* times the cleanup timer fires in a run
MaxTicks == 3

\* timeSchema: /^\d{2}:\d{2}$/ and hours 00-23, minutes 00-59
timeSchema(val) ==
    /\ Len(val) = 5
    /\ val[3] = ":"
    /\ \A i \in {1, 2, 4, 5} : IsDigit(val[i])
    /\ LET parts == JsSplit(val)
           h == JsPart(parts, 0)
           mn == JsPart(parts, 1)
       IN h >= 0 /\ h <= 23 /\ mn >= 0 /\ mn <= 59

\* a >= b on strings
JsStringGreaterOrEqual(a, b) == ~StrLess(a, b)

\* a > b on strings: by code units, left to right
JsStringGreater(a, b) == StrLess(b, a)

\* z.string().email(), as far as the addresses drawn go: text, @, text
isEmail(e) == \E i \in 2..(Len(e) - 1) : SubSeq(e, i, i) = "@"

\* z.array(z.string().email()).max(10).optional()
submitEmailsSchema(emails) ==
    emails.present =>
        /\ Len(emails.list) <= 10
        /\ \A i \in 1..Len(emails.list) : isEmail(emails.list[i])

submitObservationSchema(body) ==
    /\ timeSchema(body.startTime)
    /\ timeSchema(body.endTime)
    /\ JsStringGreater(body.endTime, body.startTime)
    /\ submitEmailsSchema(body.emails)

\* z.array(z.string().email()).min(1).max(10)
shareBodySchema(list) ==
    /\ Len(list) >= 1
    /\ Len(list) <= 10
    /\ \A i \in 1..Len(list) : isEmail(list[i])

SHARE_RATE_LIMIT == [maxRequests |-> maxRequests, windowMs |-> windowMs]

\* a limiter that lets a request through when the count equals maxRequests
LimitPassed(count, options) == count > options.maxRequests

\* entry.count >= options.maxRequests
LimitReached(count, options) == count >= options.maxRequests

\* checkRateLimit(key, options) at time t on the store st: the RateLimitResult
\* and the store after the call
RateLimitResult(st, key, t, options) ==
    IF key \notin DOMAIN st \/ t - st[key].windowStart >= options.windowMs
    THEN [allowed |-> TRUE,
          remaining |-> options.maxRequests - 1,
          resetAt |-> t + options.windowMs,
          store |-> [k \in DOMAIN st \cup {key} |->
                        IF k = key THEN [count |-> 1, windowStart |-> t] ELSE st[k]]]
    ELSE IF LimitReached(st[key].count, options)
    THEN [allowed |-> FALSE,
          remaining |-> 0,
          resetAt |-> st[key].windowStart + options.windowMs,
          store |-> st]
    ELSE [allowed |-> TRUE,
          remaining |-> options.maxRequests - (st[key].count + 1),
          resetAt |-> st[key].windowStart + options.windowMs,
          store |-> [st EXCEPT ![key].count = @ + 1]]

\* checkRateLimit(key, SHARE_RATE_LIMIT) at time t
checkRateLimit(st, key, t) == RateLimitResult(st, key, t, SHARE_RATE_LIMIT)

\* resetRateLimit(key): store.delete(key)
resetRateLimit(st, key) == [k \in DOMAIN st \ {key} |-> st[k]]

\* clearAllRateLimits(): store.clear()
clearAllRateLimits(st) == <<>>

\* reply.status(status).send({... error: {code}})
Respond(r, status, code) == [r EXCEPT !.pc = "done", !.status = status, !.code = code]

\* the submit handler answering 500 from its inner catch
SubmitFailsOnExcelFailure(r) == Respond(r, 500, "SERVER_ERROR")

\* the inner catch of submit: log, then fall through to the 201 response
SubmitAfterExcelFailure(r) == Respond(r, 201, "")

\* a handler that calls checkRateLimit before it parses the body
StoreCheckedBeforeParse(valid, st, rateLimit) == rateLimit.store

\* the store when the share handler reaches its first await or its early
\* return: checkRateLimit is called only after safeParse succeeded
StoreAfterParse(valid, st, rateLimit) == IF valid THEN rateLimit.store ELSE st

\* a buffer generated anew for each recipient
FreshBufferForSend(r) == r.buffer + r.i

\* the excelBuffer variable read in the loop body
BufferForSend(r) == r.buffer

\* a loop that stops at the first failed send
StopAtFailure(r, ok) == IF ok THEN r.i + 1 ELSE Len(r.emails.list) + 1

\* for (const email of emails): the next iteration whatever the result
NextRecipient(r, ok) == r.i + 1

\* one iteration of the send loop: sendObservationEmail({to: [email], excelBuffer})
SendTo(r, ok) ==
    [r EXCEPT !.sends = Append(@, [to |-> r.emails.list[r.i],
                                   buffer |-> BufferForSend(r), ok |-> ok]),
              !.emailsSent = IF ok THEN @ + 1 ELSE @,
              !.i = NextRecipient(r, ok)]

\* await generateExcelBuffer(...) returning a new buffer
Generated(r) ==
    [r EXCEPT !.generated = @ + 1, !.buffer = r.generated + 1, !.pc = "send", !.i = 1]

(* request bodies *)
SubmitTimes ==
    {<<TimeStr(14, 0), TimeStr(14, 10)>>, <<TimeStr(14, 10), TimeStr(14, 0)>>,
     <<TimeStr(14, 0), TimeStr(14, 0)>>, <<TimeStr(23, 55), TimeStr(0, 5)>>,
     <<<<"1", "4", "0", "0">>, TimeStr(14, 10)>>}

SubmitEmails ==
    {[present |-> FALSE, list |-> <<>>],
     [present |-> TRUE, list |-> <<>>],
     [present |-> TRUE, list |-> <<"a@example.org">>],
     [present |-> TRUE, list |-> <<"a@example.org", "b@example.org">>]}

ShareEmails == {<<>>, <<"a@example.org">>, <<"b@example.org", "a@example.org">>, <<"nobody">>}

ShareIds == {1, 2}

InitRoutes ==
    /\ metadata = NoMetadata
    /\ observations = NoObservations
    /\ slots = NoSlots
    /\ rel = NoRel
    /\ cellArg = NoCellArg
    /\ cell = NoCell
    /\ tsSheet = NoTsSheet
    /\ goSheet = NoGoSheet
    /\ calls = NoCalls
    /\ RoutesIdle
    /\ file = NoFile
    /\ LaterIdle

RoutesFrame ==
    UNCHANGED <<metadata, observations, slots, rel, cellArg, cell, tsSheet, goSheet, calls,
                file,
                svc, redis, mig, lim>>

\* POST /submit arrives: safeParse, 400 on failure
ReceiveSubmit ==
    /\ req.pc \in {"none", "done"}
    /\ nreq < MaxRequests
    /\ \E t \in SubmitTimes, e \in SubmitEmails :
          LET r == [NoRequest EXCEPT !.kind = "submit", !.startTime = t[1],
                                     !.endTime = t[2], !.emails = e]
          IN req' = IF submitObservationSchema(r)
                    THEN [r EXCEPT !.pc = "insert"]
                    ELSE Respond(r, 400, "VALIDATION_ERROR")
    /\ nreq' = nreq + 1
    /\ UNCHANGED <<now, store, db, passes>>
    /\ RoutesFrame

\* await query(INSERT ... RETURNING id): a row, no row, or an error; without
\* recipients the 201 follows at once
SubmitInsert ==
    /\ req.kind = "submit" /\ req.pc = "insert"
    /\ \E outcome \in {"row", "norow", "error", "constraint"} :
          CASE outcome = "row" ->
                 LET id == Cardinality(db) + 1
                     r == [req EXCEPT !.submissionId = id, !.queries = @ + 1]
                 IN /\ db' = db \cup {id}
                    /\ req' = IF r.emails.present /\ Len(r.emails.list) > 0
                              THEN [r EXCEPT !.pc = "excel"]
                              ELSE Respond(r, 201, "")
            [] outcome = "norow" ->
                 /\ db' = db
                 /\ req' = Respond([req EXCEPT !.queries = @ + 1], 500, "DATABASE_ERROR")
            [] outcome = "error" ->
                 /\ db' = db
                 /\ req' = Respond([req EXCEPT !.queries = @ + 1], 500, "DATABASE_ERROR")
            [] outcome = "constraint" ->
                 /\ db' = db
                 /\ req' = Respond([req EXCEPT !.queries = @ + 1], 400, "VALIDATION_ERROR")
    /\ UNCHANGED <<now, store, passes, nreq>>
    /\ RoutesFrame

\* await generateExcelBuffer(...) inside the inner try
SubmitExcel ==
    /\ req.kind = "submit" /\ req.pc = "excel"
    /\ \E ok \in BOOLEAN :
          req' = IF ok THEN Generated(req)
                 ELSE SubmitAfterExcelFailure([req EXCEPT !.generated = @ + 1])
    /\ UNCHANGED <<now, store, db, passes, nreq>>
    /\ RoutesFrame

\* await sendObservationEmail(...) for the next recipient; 201 after the last
SubmitSend ==
    /\ req.kind = "submit" /\ req.pc = "send"
    /\ \E ok \in BOOLEAN :
          LET r == SendTo(req, ok)
          IN req' = IF r.i > Len(r.emails.list) THEN Respond(r, 201, "") ELSE r
    /\ UNCHANGED <<now, store, db, passes, nreq>>
    /\ RoutesFrame

\* POST /:id/share arrives: safeParse, then checkRateLimit("share:" + id)
ReceiveShare ==
    /\ req.pc \in {"none", "done"}
    /\ nreq < MaxRequests
    /\ \E id \in ShareIds, e \in ShareEmails :
          LET r == [NoRequest EXCEPT !.kind = "share", !.id = id,
                                     !.emails = [present |-> TRUE, list |-> e]]
              rateLimit == checkRateLimit(store, id, now)
          IN IF ~shareBodySchema(e)
             THEN /\ req' = Respond(r, 400, "VALIDATION_ERROR")
                  /\ store' = StoreAfterParse(FALSE, store, rateLimit)
                  /\ UNCHANGED passes
             ELSE /\ store' = StoreAfterParse(TRUE, store, rateLimit)
                  /\ IF ~rateLimit.allowed
                     THEN /\ req' = Respond(r, 429, "RATE_LIMIT_EXCEEDED")
                          /\ UNCHANGED passes
                     ELSE /\ req' = [r EXCEPT !.pc = "fetch"]
                          /\ passes' = [k \in DOMAIN passes \cup {id} |->
                                           IF k = id
                                           THEN (IF id \in DOMAIN passes
                                                 THEN Append(passes[id], now)
                                                 ELSE <<now>>)
                                           ELSE passes[k]]
    /\ nreq' = nreq + 1
    /\ UNCHANGED <<now, db>>
    /\ RoutesFrame

\* await fetchObservationById(id): the row, no row (404), or an error (500)
ShareFetch ==
    /\ req.kind = "share" /\ req.pc = "fetch"
    /\ \E outcome \in {"rows", "error"} :
          LET r == [req EXCEPT !.queries = @ + 1]
          IN req' = IF outcome = "error" THEN Respond(r, 500, "SERVER_ERROR")
                    ELSE IF r.id \in db THEN [r EXCEPT !.pc = "excel"]
                    ELSE Respond(r, 404, "NOT_FOUND")
    /\ UNCHANGED <<now, store, db, passes, nreq>>
    /\ RoutesFrame

\* await generateExcelBuffer(...): "Generate Excel once"
ShareExcel ==
    /\ req.kind = "share" /\ req.pc = "excel"
    /\ \E ok \in BOOLEAN :
          req' = IF ok THEN Generated(req)
                 ELSE Respond([req EXCEPT !.generated = @ + 1], 500, "SERVER_ERROR")
    /\ UNCHANGED <<now, store, db, passes, nreq>>
    /\ RoutesFrame

\* await sendObservationEmail(...) for the next recipient; after the last,
\* 500 EMAIL_ERROR when emailsSent === 0, else 200
ShareSend ==
    /\ req.kind = "share" /\ req.pc = "send"
    /\ \E ok \in BOOLEAN :
          LET r == SendTo(req, ok)
          IN req' = IF r.i > Len(r.emails.list)
                    THEN (IF r.emailsSent = 0 THEN Respond(r, 500, "EMAIL_ERROR")
                          ELSE Respond(r, 200, ""))
                    ELSE r
    /\ UNCHANGED <<now, store, db, passes, nreq>>
    /\ RoutesFrame

\* CLEANUP_INTERVAL passes and the setInterval callback runs: entries whose
\* window started more than CLEANUP_INTERVAL ago are deleted
CleanupTimer ==
    /\ now < MaxTicks * CLEANUP_INTERVAL
    /\ now' = now + CLEANUP_INTERVAL
    /\ store' = [k \in {x \in DOMAIN store :
                          ~(now' - store[x].windowStart > CLEANUP_INTERVAL)} |-> store[k]]
    /\ UNCHANGED <<db, req, passes, nreq>>
    /\ RoutesFrame

NextRoutes ==
    \/ ReceiveSubmit
    \/ SubmitInsert
    \/ SubmitExcel
    \/ SubmitSend
    \/ ReceiveShare
    \/ ShareFetch
    \/ ShareExcel
    \/ ShareSend
    \/ CleanupTimer

SpecRoutes == InitRoutes /\ [][NextRoutes]_vars

(***************************************************************************)
(* File names of the spreadsheet: services/email.ts (attachment),          *)
(* routes/observations.ts (GET /:id/excel), excel_service.go: SpecNames    *)
(* Names are TLA+ strings, read character by character.                    *)
(***************************************************************************)
LowerLetters ==
    <<"a", "b", "c", "d", "e", "f", "g", "h", "i", "j", "k", "l", "m",
      "n", "o", "p", "q", "r", "s", "t", "u", "v", "w", "x", "y", "z">>

\* the character class a-zA-Z0-9-_
InSafeClass(c) ==
    \/ \E i \in 1..26 : LowerLetters[i] = c
    \/ \E i \in 1..26 : Letters[i] = c
    \/ \E i \in 1..10 : Digits[i] = c
    \/ c = "-"
    \/ c = "_"

\* sanitizeFilename that deletes the unsafe characters
RECURSIVE sanitizeFilenameByDeleting(_)
sanitizeFilenameByDeleting(str) ==
    IF Len(str) = 0 THEN ""
    ELSE (IF InSafeClass(SubSeq(str, 1, 1)) THEN SubSeq(str, 1, 1) ELSE "")
         \o sanitizeFilenameByDeleting(Tail(str))

\* str.replace(/[^a-zA-Z0-9-_]/g, '_')
RECURSIVE sanitizeFilename(_)
sanitizeFilename(str) ==
    IF Len(str) = 0 THEN ""
    ELSE (IF InSafeClass(SubSeq(str, 1, 1)) THEN SubSeq(str, 1, 1) ELSE "_")
         \o sanitizeFilename(Tail(str))

\* sendObservationEmail: `ethogram-${sanitizeFilename(patient)}-${sanitizeFilename(date)}.xlsx`
AttachmentFilename(patient, date) ==
    "ethogram-" \o sanitizeFilename(patient) \o "-" \o sanitizeFilename(date) \o ".xlsx"

\* GET /:id/excel:
\* `ethogram_${sanitizeFilename(metadata.date)}_${sanitizeFilename(metadata.observerName)}.xlsx`
DownloadFilename(date, observerName) ==
    "ethogram_" \o sanitizeFilename(date) \o "_" \o sanitizeFilename(observerName) \o ".xlsx"

\* strings.ReplaceAll(name, " ", "-"), then strings.Map keeping a-z A-Z 0-9 and "-"
RECURSIVE GoCleanName(_)
GoCleanName(name) ==
    IF Len(name) = 0 THEN ""
    ELSE LET c == IF SubSeq(name, 1, 1) = " " THEN "-" ELSE SubSeq(name, 1, 1)
         IN (IF InSafeClass(c) /\ c # "_" THEN c ELSE "") \o GoCleanName(Tail(name))

\* ExcelService.GenerateFilename: WBS-Ethogram-<observer>-<date>-<first 8 of the id>.xlsx
GenerateFilename(observerName, date, id) ==
    "WBS-Ethogram-" \o GoCleanName(observerName) \o "-" \o date \o "-"
        \o SubSeq(id, 1, 8) \o ".xlsx"

Patients == {"Sayyida", "Baby 1", "../etc/passwd", "O'Neil & co", "a_b-C9"}

Dates == {"2025-11-29", "11/29/2025", "2025.11.29"}

ObserverNames == {"Test Observer", "Ann-Lee_2", "x<y>", "Zoe"}

InitNames ==
    /\ metadata = NoMetadata
    /\ observations = NoObservations
    /\ slots = NoSlots
    /\ rel = NoRel
    /\ cellArg = NoCellArg
    /\ cell = NoCell
    /\ tsSheet = NoTsSheet
    /\ goSheet = NoGoSheet
    /\ calls = NoCalls
    /\ RoutesIdle
    /\ LaterIdle
    /\ \E p \in Patients, d \in Dates, o \in ObserverNames :
          file = [route |-> "none", patient |-> p, date |-> d, observerName |-> o,
                  filename |-> ""]

NamesFrame ==
    UNCHANGED <<metadata, observations, slots, rel, cellArg, cell, tsSheet, goSheet, calls,
                now, store, db, req, passes, nreq, svc, redis, mig, lim>>

\* sendObservationEmail names the attachment
NameAttachment ==
    /\ file' = [file EXCEPT !.route = "email",
                            !.filename = AttachmentFilename(file.patient, file.date)]
    /\ NamesFrame

\* GET /:id/excel names the download in Content-Disposition
NameDownload ==
    /\ file' = [file EXCEPT !.route = "download",
                            !.filename = DownloadFilename(file.date, file.observerName)]
    /\ NamesFrame

\* the Go service names the file of an observation: its date is a time.Time,
\* formatted 2006-01-02
NameGoFile ==
    /\ file.date = "2025-11-29"
    /\ file' = [file EXCEPT !.route = "go",
                            !.filename = GenerateFilename(file.observerName, file.date,
                                                          "550e8400-e29b-41d4-a716-446655440000")]
    /\ NamesFrame

NextNames ==
    \/ NameAttachment
    \/ NameDownload
    \/ NameGoFile

SpecNames == InitNames /\ [][NextNames]_vars

(***************************************************************************)
(* observation_service.go (Create, sendObservationEmail) and               *)
(* email_service.go (SendObservationEmail): SpecService                    *)
(* Create runs statement by statement; the goroutine it starts runs        *)
(* concurrently with the rest of Create and with the goroutines of earlier *)
(* calls.  A panic in a goroutine without recover ends the process.        *)
(***************************************************************************)
\* Create calls and direct SendObservationEmail calls in a run
MaxCalls == 2

\* for attempt := 1; attempt <= 3; attempt++
AttemptsAllowed == 3

\* a backoff that is not doubled
BackoffKept(backoff) == backoff

\* backoff *= 2
BackoffDoubled(backoff) == backoff * 2

\* request bodies accepted by ShouldBindJSON: the date string, the recipients and
\* the keys of timeSlots are not validated further
ServiceSessions ==
    [startTime : {TimeStr(14, 0)}, endTime : {TimeStr(14, 10)}, date : {"2025-11-29"},
     aviary : {"Sayyida's Cove"}, patient : {"Sayyida"}, observerName : {"Test Observer"}]

ServiceTimeSlots ==
    {(TimeStr(14, 0) :> [behavior |-> "flying"]),
     (<<"1", "4">> :> [behavior |-> "flying"])}

ServiceEmails == {<<>>, <<"a@example.org">>}

CreateRequests ==
    [dateOk : BOOLEAN, md : ServiceSessions, timeSlots : ServiceTimeSlots,
     emails : ServiceEmails]

\* transformFlatToArray: each flat observation becomes a one-element list
transformFlatToArray(flatSlots) ==
    [k \in DOMAIN flatSlots |->
        <<[subjectType |-> "foster_parent", subjectId |-> "Sayyida"] @@ flatSlots[k]>>]

\* the call of Create in progress, or the last one that returned
NoCreate == [pc |-> "idle", req |-> <<>>, obs |-> 0, result |-> "none", goroutine |-> 0]

\* the goroutine of sendObservationEmail, or a direct SendObservationEmail call
Goroutine(origin, obs, md, timeSlots, emails, pc) ==
    [origin |-> origin, obs |-> obs, md |-> md, timeSlots |-> timeSlots, emails |-> emails,
     pc |-> pc, attempt |-> 0, backoff |-> 0, attempts |-> <<>>, slept |-> <<>>,
     generated |-> 0, result |-> "running", wraps |-> 0]

InitService ==
    /\ metadata = NoMetadata
    /\ observations = NoObservations
    /\ slots = NoSlots
    /\ rel = NoRel
    /\ cellArg = NoCellArg
    /\ cell = NoCell
    /\ tsSheet = NoTsSheet
    /\ goSheet = NoGoSheet
    /\ calls = NoCalls
    /\ RoutesIdle
    /\ file = NoFile
    /\ redis = NoRedis
    /\ mig = NoMig
    /\ lim = NoLim
    /\ \E configured \in BOOLEAN :
          svc = [alive |-> TRUE, configured |-> configured, table |-> <<>>,
                 create |-> NoCreate, goroutines |-> <<>>, ncalls |-> 0]

ServiceFrame ==
    UNCHANGED <<metadata, observations, slots, rel, cellArg, cell, tsSheet, goSheet, calls,
                now, store, db, req, passes, nreq, file, redis, mig, lim>>

\* the handler calls Create: time.Parse of the date, then transformFlatToArray
\* and the observation model
CreateCalled ==
    /\ svc.alive
    /\ svc.create.pc \in {"idle", "done"}
    /\ svc.ncalls < MaxCalls
    /\ \E r \in CreateRequests :
          svc' = [svc EXCEPT
                    !.ncalls = @ + 1,
                    !.create = IF r.dateOk
                               THEN [NoCreate EXCEPT !.pc = "save", !.req = r]
                               ELSE [NoCreate EXCEPT !.pc = "done", !.req = r,
                                                     !.result = "error"]]
    /\ ServiceFrame

\* s.repo.Create(ctx, obs): INSERT ... RETURNING id, or an error
RepoCreate ==
    /\ svc.alive
    /\ svc.create.pc = "save"
    /\ \E ok \in BOOLEAN :
          IF ok
          THEN LET id == Len(svc.table) + 1
                   r == svc.create.req
               IN svc' = [svc EXCEPT
                            !.table = Append(@, [id |-> id, md |-> r.md, emails |-> r.emails,
                                                 timeSlots |-> transformFlatToArray(r.timeSlots)]),
                            !.create.obs = id,
                            !.create.pc = "spawn"]
          ELSE svc' = [svc EXCEPT !.create.pc = "done", !.create.result = "error"]
    /\ ServiceFrame

\* if s.excelService != nil && s.emailService != nil && len(obs.Emails) > 0 {
\*     go s.sendObservationEmail(obs) }
CreateSpawn ==
    /\ svc.alive
    /\ svc.create.pc = "spawn"
    /\ LET o == svc.table[svc.create.obs]
       IN IF svc.configured /\ Len(o.emails) > 0
          THEN svc' = [svc EXCEPT
                         !.goroutines = Append(@, Goroutine("create", o.id, o.md, o.timeSlots,
                                                            o.emails, "generate")),
                         !.create.goroutine = Len(svc.goroutines) + 1,
                         !.create.pc = "return"]
          ELSE svc' = [svc EXCEPT !.create.pc = "return"]
    /\ ServiceFrame

\* return obs, nil
CreateReturn ==
    /\ svc.alive
    /\ svc.create.pc = "return"
    /\ svc' = [svc EXCEPT !.create.pc = "done", !.create.result = "obs"]
    /\ ServiceFrame

\* s.excelService.GenerateObservationExcel(obs) in the goroutine: a buffer, an
\* error (logged, the goroutine returns), or a panic of convertToRelativeTime
GoroutineGenerate ==
    /\ svc.alive
    /\ \E g \in 1..Len(svc.goroutines) :
          /\ svc.goroutines[g].pc = "generate"
          /\ LET w == svc.goroutines[g]
             IN IF GenerateObservationExcel(w.md, w.timeSlots).panicked
                THEN svc' = [svc EXCEPT !.alive = FALSE,
                                        !.goroutines[g].generated = 1,
                                        !.goroutines[g].pc = "panic"]
                ELSE \E ok \in BOOLEAN :
                        svc' = [svc EXCEPT
                                  !.goroutines[g].generated = 1,
                                  !.goroutines[g].pc = IF ok THEN "enter" ELSE "done",
                                  !.goroutines[g].result = IF ok THEN "running" ELSE "logged"]
    /\ ServiceFrame

\* a test or another caller invokes SendObservationEmail with an observation
CallSendObservationEmail ==
    /\ svc.alive
    /\ svc.ncalls < MaxCalls
    /\ \E md \in ServiceSessions, emails \in ServiceEmails :
          svc' = [svc EXCEPT
                    !.ncalls = @ + 1,
                    !.goroutines = Append(@, Goroutine("direct", 0, md, <<>>, emails, "enter"))]
    /\ ServiceFrame

\* SendObservationEmail up to the loop: return nil when there is no recipient,
\* else build the request; backoff := time.Second; attempt := 1
SendEnter ==
    /\ svc.alive
    /\ \E g \in 1..Len(svc.goroutines) :
          /\ svc.goroutines[g].pc = "enter"
          /\ svc' = IF Len(svc.goroutines[g].emails) = 0
                    THEN [svc EXCEPT !.goroutines[g].pc = "done",
                                     !.goroutines[g].result = "nil"]
                    ELSE [svc EXCEPT !.goroutines[g].pc = "attempt",
                                     !.goroutines[g].attempt = 1,
                                     !.goroutines[g].backoff = 1]
    /\ ServiceFrame

\* one iteration of the loop up to time.Sleep: err := s.sendEmail(reqData);
\* return nil on success; lastErr = err; after the last attempt the loop ends and
\* the error wrapping lastErr is returned
SendAttempt ==
    /\ svc.alive
    /\ \E g \in 1..Len(svc.goroutines) :
          /\ svc.goroutines[g].pc = "attempt"
          /\ svc.goroutines[g].attempt <= AttemptsAllowed
          /\ \E ok \in BOOLEAN :
                LET w == [svc.goroutines[g] EXCEPT !.attempts = Append(@, ok)]
                IN svc' = [svc EXCEPT !.goroutines[g] =
                             IF ok
                             THEN [w EXCEPT !.pc = "done", !.result = "nil"]
                             ELSE IF w.attempt < AttemptsAllowed
                             THEN [w EXCEPT !.pc = "sleep", !.wraps = w.attempt]
                             ELSE [w EXCEPT !.pc = "done", !.result = "error",
                                            !.wraps = w.attempt]]
    /\ ServiceFrame

\* time.Sleep(backoff) returns; backoff *= 2; attempt++
SendSleep ==
    /\ svc.alive
    /\ \E g \in 1..Len(svc.goroutines) :
          /\ svc.goroutines[g].pc = "sleep"
          /\ svc' = [svc EXCEPT !.goroutines[g].slept = Append(@, svc.goroutines[g].backoff),
                                !.goroutines[g].backoff = BackoffDoubled(@),
                                !.goroutines[g].attempt = @ + 1,
                                !.goroutines[g].pc = "attempt"]
    /\ ServiceFrame

NextService ==
    \/ CreateCalled
    \/ RepoCreate
    \/ CreateSpawn
    \/ CreateReturn
    \/ GoroutineGenerate
    \/ CallSendObservationEmail
    \/ SendEnter
    \/ SendAttempt
    \/ SendSleep

SpecService == InitService /\ [][NextService]_vars

\* every call of sendEmail returns (the HTTP client has a 30 second timeout),
\* every time.Sleep returns, and the scheduler runs every goroutine
SpecServiceLive ==
    SpecService /\ WF_vars(SendEnter) /\ WF_vars(SendAttempt) /\ WF_vars(SendSleep)

(***************************************************************************)
(* middleware/rate_limit.go: RateLimiter.Middleware with Redis, in its two *)
(* versions: a pipeline of INCR and EXPIRE, and a Lua script that runs     *)
(* INCR and, for a new key, EXPIRE: SpecRedis                              *)
(* The Redis server executes one command (or one script) at a time; the    *)
(* commands of concurrent requests interleave.  A reply can be lost, the   *)
(* Go process can crash and restart while commands are pending, and keys   *)
(* expire as the clock advances.                                           *)
(***************************************************************************)
\* rl.maxRequests, as configured in TestRateLimiter_Middleware
rlMaxRequests == 3

\* rl.windowPeriod in seconds, as configured in TestRateLimiter_Middleware
windowPeriod == 10

\* requests received in a run
MaxHits == 4

\* clock steps in a run, each of half a window
MaxClock == 2

ClientIPs == {"192.168.1.1", "192.168.1.2"}

\* requests the process handles at the same time: one for each client
MaxInFlight == Cardinality(ClientIPs)

\* the key has no time to live
NoExpiry == 0 - 1

\* the commands one request sends to Redis
Commands(impl) == IF impl = "pipeline" THEN <<"INCR", "EXPIRE">> ELSE <<"EVAL">>

\* INCR key: the key is created at 1 without expiry, or incremented
Incr(keys, key, t) ==
    IF key \in DOMAIN keys
    THEN [keys EXCEPT ![key].count = @ + 1]
    ELSE [k \in DOMAIN keys \cup {key} |->
            IF k = key THEN [count |-> 1, expireAt |-> NoExpiry, created |-> t]
            ELSE keys[k]]

\* EXPIRE key seconds: no effect on a key that does not exist
Expire(keys, key, t) ==
    IF key \in DOMAIN keys
    THEN [keys EXCEPT ![key].expireAt = t + windowPeriod]
    ELSE keys

\* the Lua script: INCR, then EXPIRE only when the count is 1
luaScript(keys, key, t) ==
    LET incremented == Incr(keys, key, t)
    IN IF incremented[key].count = 1 THEN Expire(incremented, key, t) ELSE incremented

\* a middleware that answers 429 when Redis fails
AbortOnRedisError == "429"

\* if err != nil { c.Next(); return }
AllowOnRedisError == "next"

\* the middleware after the reply: c.Next(), or 429 and c.Abort()
Decide(err, count) ==
    IF err THEN AllowOnRedisError
    ELSE IF count > rlMaxRequests THEN "429"
    ELSE "next"

\* no request answered yet
NoAnswer == [ip |-> "", err |-> FALSE, count |-> 0, outcome |-> "none"]

\* the sequence without its p-th element
Without(seq, p) == SubSeq(seq, 1, p - 1) \o SubSeq(seq, p + 1, Len(seq))

InitRedis ==
    /\ metadata = NoMetadata
    /\ observations = NoObservations
    /\ slots = NoSlots
    /\ rel = NoRel
    /\ cellArg = NoCellArg
    /\ cell = NoCell
    /\ tsSheet = NoTsSheet
    /\ goSheet = NoGoSheet
    /\ calls = NoCalls
    /\ RoutesIdle
    /\ file = NoFile
    /\ svc = NoSvc
    /\ mig = NoMig
    /\ lim = NoLim
    /\ \E impl \in {"pipeline", "lua"} :
          redis = [impl |-> impl, clock |-> 0, keys |-> <<>>, inflight |-> <<>>,
                   last |-> NoAnswer, hits |-> 0]

RedisFrame ==
    UNCHANGED <<metadata, observations, slots, rel, cellArg, cell, tsSheet, goSheet, calls,
                now, store, db, req, passes, nreq, file, svc, mig, lim>>

\* a request arrives: key := "rate_limit:" + c.ClientIP(), and the pipeline or
\* the script is sent to Redis
MiddlewareCalled ==
    /\ redis.hits < MaxHits
    /\ Len(redis.inflight) < MaxInFlight
    /\ \E ip \in ClientIPs :
          redis' = [redis EXCEPT
                      !.hits = @ + 1,
                      !.inflight = Append(@, [ip |-> ip, cmds |-> Commands(redis.impl),
                                              count |-> 0, waiting |-> TRUE])]
    /\ RedisFrame

\* the Redis server executes the next command of one connection
RedisExecutes ==
    /\ \E p \in 1..Len(redis.inflight) :
          /\ Len(redis.inflight[p].cmds) > 0
          /\ LET b == redis.inflight[p]
                 cmd == Head(b.cmds)
                 keys == CASE cmd = "INCR" -> Incr(redis.keys, b.ip, redis.clock)
                           [] cmd = "EXPIRE" -> Expire(redis.keys, b.ip, redis.clock)
                           [] cmd = "EVAL" -> luaScript(redis.keys, b.ip, redis.clock)
                 after == [b EXCEPT !.cmds = Tail(@),
                                    !.count = IF cmd = "EXPIRE" THEN @ ELSE keys[b.ip].count]
             IN redis' = [redis EXCEPT
                            !.keys = keys,
                            !.inflight = IF after.cmds = <<>> /\ ~after.waiting
                                         THEN Without(@, p)
                                         ELSE [@ EXCEPT ![p] = after]]
    /\ RedisFrame

\* pipe.Exec or luaScript.Run returns the count, and the middleware decides
ReplyReceived ==
    /\ \E r \in 1..Len(redis.inflight) :
          /\ redis.inflight[r].waiting
          /\ redis.inflight[r].cmds = <<>>
          /\ redis' = [redis EXCEPT
                         !.inflight = Without(@, r),
                         !.last = [ip |-> redis.inflight[r].ip, err |-> FALSE,
                                   count |-> redis.inflight[r].count,
                                   outcome |-> Decide(FALSE, redis.inflight[r].count)]]
    /\ RedisFrame

\* pipe.Exec or luaScript.Run returns an error: the connection failed or the
\* context ended, before, between or after the commands ran on the server
ErrorReceived ==
    /\ \E r \in 1..Len(redis.inflight) :
          /\ redis.inflight[r].waiting
          /\ \E executed \in BOOLEAN :
                redis' = [redis EXCEPT
                            !.inflight = IF executed /\ redis.inflight[r].cmds # <<>>
                                         THEN [@ EXCEPT ![r].waiting = FALSE]
                                         ELSE Without(@, r),
                            !.last = [ip |-> redis.inflight[r].ip, err |-> TRUE, count |-> 0,
                                      outcome |-> Decide(TRUE, 0)]]
    /\ RedisFrame

\* the clock advances by half a window and Redis removes the expired keys
ClockAdvances ==
    /\ redis.clock < MaxClock * (windowPeriod \div 2)
    /\ LET t == redis.clock + (windowPeriod \div 2)
       IN redis' = [redis EXCEPT
                      !.clock = t,
                      !.keys = [k \in {x \in DOMAIN redis.keys :
                                          \/ redis.keys[x].expireAt = NoExpiry
                                          \/ redis.keys[x].expireAt > t} |-> redis.keys[k]]]
    /\ RedisFrame

\* the Go process crashes and restarts: the requests it was handling get no
\* answer; what it had sent to Redis is still executed
ProcessCrashes ==
    /\ \E r \in 1..Len(redis.inflight) : redis.inflight[r].waiting
    /\ redis' = [redis EXCEPT
                   !.inflight = SelectSeq([r \in 1..Len(redis.inflight) |->
                                              [redis.inflight[r] EXCEPT !.waiting = FALSE]],
                                          LAMBDA b : b.cmds # <<>>)]
    /\ RedisFrame

NextRedis ==
    \/ MiddlewareCalled
    \/ RedisExecutes
    \/ ReplyReceived
    \/ ErrorReceived
    \/ ClockAdvances
    \/ ProcessCrashes

SpecRedis == InitRedis /\ [][NextRedis]_vars

(***************************************************************************)
(* scripts/migrate.ts: migrate(): SpecMigrate                              *)
(* The script can be started while another run of it is still going.  A    *)
(* statement of a run succeeds or fails as the database decides; the       *)
(* transaction of a file is the database's: its statements take effect at  *)
(* COMMIT or not at all.                                                   *)
(***************************************************************************)
\* starts of the script in a run of the model
MaxRuns == 3

\* the script's processes that can run at the same time
Runners == {1, 2}

\* the files that can be in the migrations directory
MigrationFiles ==
    {[name |-> <<"0", "0", "1">>, ext |-> ".sql"],
     [name |-> <<"0", "0", "2">>, ext |-> ".sql"],
     [name |-> <<"0", "1", "0">>, ext |-> ".sql"],
     [name |-> <<"0", "0", "3">>, ext |-> ".md"]}

\* the files in the order readdirSync returned them
ListingKept(listing) == listing

\* .sort() of the file names
ListingSorted(listing) == SortStrings({listing[i] : i \in 1..Len(listing)})

\* readdirSync(migrationsDir).filter((f) => f.endsWith(".sql")).sort()
SqlFiles(dir, listing) ==
    ListingSorted(SelectSeq(listing, LAMBDA n : [name |-> n, ext |-> ".sql"] \in dir))

\* files.filter((f) => !applied.has(f))
PendingFiles(files, applied) == SelectSeq(files, LAMBDA f : f \notin applied)

\* a process of the script before it is started
NoRun ==
    [pc |-> "idle", pending |-> <<>>, i |-> 0, sqlRun |-> FALSE, rowInserted |-> FALSE,
     committed |-> <<>>]

InitMigrate ==
    /\ metadata = NoMetadata
    /\ observations = NoObservations
    /\ slots = NoSlots
    /\ rel = NoRel
    /\ cellArg = NoCellArg
    /\ cell = NoCell
    /\ tsSheet = NoTsSheet
    /\ goSheet = NoGoSheet
    /\ calls = NoCalls
    /\ RoutesIdle
    /\ file = NoFile
    /\ svc = NoSvc
    /\ redis = NoRedis
    /\ lim = NoLim
    /\ \E dir \in SUBSET MigrationFiles :
          mig = [dir |-> dir, table |-> {}, schema |-> <<>>, runs |-> [p \in Runners |-> NoRun],
                 nruns |-> 0]

MigrateFrame ==
    UNCHANGED <<metadata, observations, slots, rel, cellArg, cell, tsSheet, goSheet, calls,
                now, store, db, req, passes, nreq, file, svc, redis, lim>>

\* the current file of run p
CurrentFile(p) == mig.runs[p].pending[mig.runs[p].i]

\* catch: ROLLBACK, process.exit(1)
RolledBack(r) == [r EXCEPT !.pc = "exited", !.sqlRun = FALSE, !.rowInserted = FALSE]

\* a migration file is added to the directory between or during runs
FileAdded ==
    /\ \E f \in MigrationFiles \ mig.dir : mig' = [mig EXCEPT !.dir = @ \cup {f}]
    /\ MigrateFrame

\* the script starts: CREATE TABLE IF NOT EXISTS migrations, readdirSync, filter,
\* sort, SELECT name FROM migrations, pending; or one of the queries fails and
\* the outer catch exits
MigrateStarts ==
    /\ mig.nruns < MaxRuns
    /\ \E p \in Runners :
          /\ mig.runs[p].pc \in {"idle", "exited", "complete"}
          /\ \E ok \in BOOLEAN, listing \in Orderings({f.name : f \in mig.dir}) :
                mig' = [mig EXCEPT
                          !.nruns = @ + 1,
                          !.runs[p] =
                              IF ok
                              THEN [NoRun EXCEPT
                                      !.pc = "file",
                                      !.pending = PendingFiles(SqlFiles(mig.dir, listing),
                                                               mig.table),
                                      !.i = 1]
                              ELSE [NoRun EXCEPT !.pc = "exited"]]
    /\ MigrateFrame

\* for (const file of pending): the loop ends ("All migrations complete"), or
\* pool.connect() and BEGIN
MigrateBegin ==
    /\ \E p \in Runners :
          /\ mig.runs[p].pc = "file"
          /\ IF mig.runs[p].i > Len(mig.runs[p].pending)
             THEN mig' = [mig EXCEPT !.runs[p].pc = "complete"]
             ELSE \E ok \in BOOLEAN :
                     mig' = [mig EXCEPT !.runs[p] = IF ok THEN [@ EXCEPT !.pc = "sql"]
                                                    ELSE RolledBack(@)]
    /\ MigrateFrame

\* await client.query(sql)
MigrateSql ==
    /\ \E p \in Runners :
          /\ mig.runs[p].pc = "sql"
          /\ \E ok \in BOOLEAN :
                mig' = [mig EXCEPT !.runs[p] = IF ok THEN [@ EXCEPT !.pc = "insert",
                                                                   !.sqlRun = TRUE]
                                               ELSE RolledBack(@)]
    /\ MigrateFrame

\* await client.query("INSERT INTO migrations (name) VALUES ($1)", [file]): the
\* name is UNIQUE, so the statement fails when a committed row has the name and
\* waits while another open transaction has inserted it
MigrateInsert ==
    /\ \E p \in Runners :
          /\ mig.runs[p].pc = "insert"
          /\ ~\E q \in Runners \ {p} :
                /\ mig.runs[q].rowInserted
                /\ CurrentFile(q) = CurrentFile(p)
          /\ \E ok \in BOOLEAN :
                mig' = [mig EXCEPT !.runs[p] =
                          IF ok /\ CurrentFile(p) \notin mig.table
                          THEN [@ EXCEPT !.pc = "commit", !.rowInserted = TRUE]
                          ELSE RolledBack(@)]
    /\ MigrateFrame

\* await client.query("COMMIT"): the transaction takes effect and the loop goes
\* on; or the statement fails, with the transaction committed or not, and the
\* catch exits
MigrateCommit ==
    /\ \E p \in Runners :
          /\ mig.runs[p].pc = "commit"
          /\ \E took \in BOOLEAN, ok \in BOOLEAN :
                /\ (ok => took)
                /\ LET f == CurrentFile(p)
                       r == mig.runs[p]
                   IN mig' = [mig EXCEPT
                                !.table = IF took /\ r.rowInserted THEN @ \cup {f} ELSE @,
                                !.schema = IF took /\ r.sqlRun THEN Append(@, f) ELSE @,
                                !.runs[p] =
                                    IF ok
                                    THEN [r EXCEPT !.pc = "file", !.i = @ + 1,
                                                   !.sqlRun = FALSE, !.rowInserted = FALSE,
                                                   !.committed = Append(@, f)]
                                    ELSE [RolledBack(r) EXCEPT
                                            !.committed = IF took THEN Append(@, f) ELSE @]]
    /\ MigrateFrame

NextMigrate ==
    \/ FileAdded
    \/ MigrateStarts
    \/ MigrateBegin
    \/ MigrateSql
    \/ MigrateInsert
    \/ MigrateCommit

SpecMigrate == InitMigrate /\ [][NextMigrate]_vars

(***************************************************************************)
(* utils/rateLimit.ts called directly: checkRateLimit, resetRateLimit,     *)
(* clearAllRateLimits and the cleanup timer: SpecLimiter                   *)
(* Beside the store the model keeps a reference store, which gets the same *)
(* calls at the same times and is never cleaned by the timer.              *)
(***************************************************************************)
\* calls of the limiter's functions in a run
MaxChecks == 5

LimiterKeys == {"share:1", "share:2"}

\* the options a caller can fix
LimiterOptions ==
    [maxRequests : {1, maxRequests}, windowMs : {windowMs, CLEANUP_INTERVAL}]

\* no call made yet
NoCheck ==
    [op |-> "none", key |-> "", allowed |-> TRUE, remaining |-> 0, resetAt |-> 0,
     refAllowed |-> TRUE]

InitLimiter ==
    /\ metadata = NoMetadata
    /\ observations = NoObservations
    /\ slots = NoSlots
    /\ rel = NoRel
    /\ cellArg = NoCellArg
    /\ cell = NoCell
    /\ tsSheet = NoTsSheet
    /\ goSheet = NoGoSheet
    /\ calls = NoCalls
    /\ RoutesIdle
    /\ file = NoFile
    /\ svc = NoSvc
    /\ redis = NoRedis
    /\ mig = NoMig
    /\ \E options \in LimiterOptions :
          lim = [options |-> options, last |-> NoCheck, ref |-> <<>>, ncalls |-> 0]

LimiterFrame ==
    UNCHANGED <<metadata, observations, slots, rel, cellArg, cell, tsSheet, goSheet, calls,
                now, db, req, passes, nreq, file, svc, redis, mig>>

\* checkRateLimit(key, options)
CallCheckRateLimit ==
    /\ lim.ncalls < MaxChecks
    /\ \E key \in LimiterKeys :
          LET result == RateLimitResult(store, key, now, lim.options)
              reference == RateLimitResult(lim.ref, key, now, lim.options)
          IN /\ store' = result.store
             /\ lim' = [lim EXCEPT
                          !.ncalls = @ + 1,
                          !.ref = reference.store,
                          !.last = [op |-> "check", key |-> key, allowed |-> result.allowed,
                                    remaining |-> result.remaining,
                                    resetAt |-> result.resetAt,
                                    refAllowed |-> reference.allowed]]
    /\ LimiterFrame

\* resetRateLimit(key)
CallResetRateLimit ==
    /\ lim.ncalls < MaxChecks
    /\ \E key \in LimiterKeys :
          /\ store' = resetRateLimit(store, key)
          /\ lim' = [lim EXCEPT !.ncalls = @ + 1,
                                !.ref = resetRateLimit(@, key),
                                !.last = [NoCheck EXCEPT !.op = "reset", !.key = key]]
    /\ LimiterFrame

\* clearAllRateLimits()
CallClearAllRateLimits ==
    /\ lim.ncalls < MaxChecks
    /\ store' = clearAllRateLimits(store)
    /\ lim' = [lim EXCEPT !.ncalls = @ + 1,
                          !.ref = clearAllRateLimits(@),
                          !.last = [NoCheck EXCEPT !.op = "clear"]]
    /\ LimiterFrame

NextLimiter ==
    \/ CallCheckRateLimit
    \/ CallResetRateLimit
    \/ CallClearAllRateLimits
    \/ CleanupTimer

SpecLimiter == InitLimiter /\ [][NextLimiter]_vars

(***************************************************************************)
(* Reading a well-formed HH:MM string, for the properties below            *)
(***************************************************************************)
IsHHMM(t) ==
    /\ Len(t) = 5
    /\ t[3] = ":"
    /\ \A i \in {1, 2, 4, 5} : IsDigit(t[i])

HourOf(t) == DigitVal(t[1]) * 10 + DigitVal(t[2])

MinuteOf(t) == DigitVal(t[4]) * 10 + DigitVal(t[5])

MinutesOf(t) == HourOf(t) * 60 + MinuteOf(t)

\* the elapsed-time label H:MM of d minutes: hours without a leading zero
ElapsedLabel(d) ==
    (IF d \div 60 < 10
     THEN <<Digits[(d \div 60) + 1]>>
     ELSE <<Digits[((d \div 60) \div 10) + 1], Digits[((d \div 60) % 10) + 1]>>)
    \o <<":", Digits[((d % 60) \div 10) + 1], Digits[((d % 60) % 10) + 1]>>

StartMin == MinutesOf(metadata.startTime)

EndMin == MinutesOf(metadata.endTime)

(***************************************************************************)
(* Properties of the time arithmetic (SpecTime)                            *)
(***************************************************************************)
\* C5: for end >= start, generateTimeSlots returns a strictly increasing sequence
\* of absolute times that begins at start, whose consecutive elements are exactly
\* 5 minutes apart, and whose last element is at or before end and less than
\* 5 minutes before it.
C5_SameDaySlots ==
    (slots.called /\ EndMin >= StartMin) =>
        LET r == slots.result
        IN /\ Len(r) >= 1
           /\ r[1] = metadata.startTime
           /\ \A k \in 1..Len(r) : IsHHMM(r[k]) /\ HourOf(r[k]) < 24 /\ MinuteOf(r[k]) < 60
           /\ \A k \in 1..(Len(r) - 1) : MinutesOf(r[k + 1]) = MinutesOf(r[k]) + 5
           /\ MinutesOf(r[Len(r)]) <= EndMin
           /\ EndMin - MinutesOf(r[Len(r)]) < 5

\* a same-day session of several slots whose end is off the 5-minute grid
C5_Witness ==
    /\ slots.called
    /\ EndMin > StartMin
    /\ (EndMin - StartMin) % 5 # 0
    /\ Len(slots.result) >= 3

\* C6: for end < start, generateTimeSlots yields start, start+5, ... up to
\* end+1440 inclusive, each rendered as the wall-clock HH:MM of (minutes mod 1440):
\* no label has an hour of 24 or more and no label repeats.
C6_MidnightSlots ==
    (slots.called /\ EndMin < StartMin) =>
        LET r == slots.result
            n == ((EndMin + 1440 - StartMin) \div 5) + 1
        IN /\ Len(r) = n
           /\ \A k \in 1..Len(r) :
                 /\ r[k] = TimeOfDay((StartMin + 5 * (k - 1)) % 1440)
                 /\ IsHHMM(r[k])
                 /\ HourOf(r[k]) < 24
           /\ Cardinality({r[k] : k \in 1..Len(r)}) = Len(r)
           /\ (metadata.startTime = TimeStr(23, 50) /\ metadata.endTime = TimeStr(0, 10))
                 => r = <<TimeStr(23, 50), TimeStr(23, 55), TimeStr(0, 0),
                          TimeStr(0, 5), TimeStr(0, 10)>>

\* a session that crosses midnight and whose last slot is exactly its end
C6_Witness ==
    /\ slots.called
    /\ EndMin < StartMin
    /\ metadata.startTime = TimeStr(23, 50)
    /\ metadata.endTime = TimeStr(0, 10)
    /\ Len(slots.result) = 5
    /\ slots.result[3] = TimeStr(0, 0)

\* C8: convertToRelativeTime(t, start), in both implementations, is the elapsed
\* minutes d = (minutes(t) - minutes(start)) mod 1440 rendered as floor(d/60)
\* without leading zero, a colon and d mod 60 as two digits; the label of start
\* itself is 0:00 and 00:05 relative to 23:55 is 0:10.
C8_RelativeLabel ==
    rel.impl # "none" =>
        /\ ~rel.panic
        /\ rel.value = ElapsedLabel((MinutesOf(rel.time) + 1440 - StartMin) % 1440)
        /\ rel.time = metadata.startTime => rel.value = <<"0", ":", "0", "0">>
        /\ (rel.time = TimeStr(0, 5) /\ metadata.startTime = TimeStr(23, 55))
              => rel.value = <<"0", ":", "1", "0">>

\* the Go function applied to a time before the start: 00:05 relative to 23:55
C8_Witness ==
    /\ rel.impl = "go"
    /\ rel.time = TimeStr(0, 5)
    /\ metadata.startTime = TimeStr(23, 55)
    /\ rel.value = <<"0", ":", "1", "0">>

(***************************************************************************)
(* Properties of the cell formatter (SpecCell)                             *)
(***************************************************************************)
\* the value of a field, "" when the object does not hold it
FieldOr(o, f) == IF f \in DOMAIN o THEN o[f] ELSE ""

\* the value shown for a (primary, override) pair
Shown(o, primary, override) ==
    CASE FieldOr(o, primary) = "" -> ""
      [] FieldOr(o, primary) = "other" /\ FieldOr(o, override) # "" -> FieldOr(o, override)
      [] OTHER -> FieldOr(o, primary)

\* the optional lines in their fixed order: <<label, value>>
OptionalLines(o) ==
    <<[label |-> "Loc: ", value |-> FieldOr(o, "location")],
      [label |-> "Object: ", value |-> Shown(o, "object", "objectOther")],
      [label |-> "Animal: ", value |-> Shown(o, "animal", "animalOther")],
      [label |-> "Interaction: ",
       value |-> Shown(o, "interactionType", "interactionTypeOther")],
      [label |-> "Description: ", value |-> FieldOr(o, "description")],
      [label |-> "Notes: ", value |-> FieldOr(o, "notes")]>>

\* the marker x followed by each optional line whose value is non-empty
RECURSIVE ExpectedFrom(_, _)
ExpectedFrom(lines, i) ==
    IF i > Len(lines) THEN ""
    ELSE (IF lines[i].value # "" THEN "\n" \o lines[i].label \o lines[i].value ELSE "")
         \o ExpectedFrom(lines, i + 1)

ExpectedCell(o) == "x" \o ExpectedFrom(OptionalLines(o), 1)

\* C10: formatCellContent returns the lines joined by newline: the marker x, then
\* the Loc, Object, Animal, Interaction, Description and Notes lines in this order,
\* each present exactly when its resolved value is non-empty; with none present the
\* result is exactly "x".
C10_CellContent ==
    cell.impl # "none" =>
        /\ cell.value = ExpectedCell(cellArg)
        /\ (\A i \in 1..6 : OptionalLines(cellArg)[i].value = "") => cell.value = "x"

\* location, other-object override, description and notes all present
C10_Witness ==
    /\ cell.impl = "ts"
    /\ cell.value =
         "x\nLoc: 12\nObject: Custom toy\nDescription: Wing stretch\nNotes: Alert"

\* the first position at which pat occurs in the text s, 0 when it does not occur
IndexOf(s, pat) ==
    LET hits == {i \in 1..(Len(s) - Len(pat) + 1) : SubSeq(s, i, i + Len(pat) - 1) = pat}
    IN IF hits = {} THEN 0 ELSE CHOOSE i \in hits : \A j \in hits : i <= j

\* the cell has a line that starts with the label
HasLine(v, label) == IndexOf(v, "\n" \o label) > 0

\* the text that follows the label on its line
LineOf(v, label) ==
    LET from == IndexOf(v, "\n" \o label) + Len(label) + 1
        ends == {j \in from..Len(v) : SubSeq(v, j, j) = "\n"}
        to == IF ends = {} THEN Len(v) + 1 ELSE CHOOSE j \in ends : \A k \in ends : j <= k
    IN SubSeq(v, from, to - 1)

\* the three (primary, override) pairs and the label of their line
OtherPairs ==
    {[primary |-> "object", override |-> "objectOther", label |-> "Object: "],
     [primary |-> "animal", override |-> "animalOther", label |-> "Animal: "],
     [primary |-> "interactionType", override |-> "interactionTypeOther",
      label |-> "Interaction: "]}

\* C11: for each of the pairs object, animal and interaction type, the cell shows
\* nothing when the primary is empty (whatever the override holds), the override when
\* the primary is "other" and the override is non-empty, the literal "other" when the
\* primary is "other" and the override is empty, and the primary unchanged otherwise.
C11_OtherFieldShown ==
    cell.impl # "none" =>
        \A p \in OtherPairs :
            LET primary == FieldOr(cellArg, p.primary)
                override == FieldOr(cellArg, p.override)
            IN /\ primary = "" => ~HasLine(cell.value, p.label)
               /\ primary # "" => HasLine(cell.value, p.label)
               /\ (primary = "other" /\ override # "") =>
                      LineOf(cell.value, p.label) = override
               /\ (primary = "other" /\ override = "") =>
                      LineOf(cell.value, p.label) = "other"
               /\ (primary # "" /\ primary # "other") =>
                      LineOf(cell.value, p.label) = primary

\* "other" without an override is shown as the literal other; an override whose
\* primary is missing is ignored
C11_Witness ==
    /\ cell.impl = "ts"
    /\ FieldOr(cellArg, "object") = "other"
    /\ FieldOr(cellArg, "objectOther") = ""
    /\ FieldOr(cellArg, "animal") = ""
    /\ FieldOr(cellArg, "animalOther") = "hawk"
    /\ LineOf(cell.value, "Object: ") = "other"
    /\ ~HasLine(cell.value, "Animal: ")

(***************************************************************************)
(* Properties of the matrix builders (SpecExcel)                           *)
(***************************************************************************)
\* the Behavior Catalog: 21 entries, rows 5 to 25 of the sheet
Catalog == BEHAVIOR_ROW_MAPPING

\* the sheets built so far
BuiltSheets == {sh \in {tsSheet, goSheet} : sh.built}

\* number of slots of the session: start, start+5, ... up to the end (the end
\* taken on the next day when it is before the start)
SlotCount == (((EndMin + 1440 - StartMin) % 1440) \div 5) + 1

\* the enumerated slot sequence of the session, as absolute HH:MM keys
EnumeratedSlots == [k \in 1..SlotCount |-> TimeOfDay(StartMin + 5 * (k - 1))]

\* the cells of the header row, left to right
HeaderCells(sh) == {a \in DOMAIN sh.cells : a[1] = 4}

\* the populated cells of the grid: behavior rows, time columns
GridCells(sh) ==
    {a \in DOMAIN sh.cells : a[1] >= 5 /\ a[1] <= 25 /\ a[2] >= 2}

\* the map holds a non-empty list under key whose first element has the behavior
\* of catalog entry i
FirstElementIs(key, i) ==
    /\ key \in DOMAIN observations
    /\ Len(observations[key]) > 0
    /\ FieldOr(observations[key][1], "behavior") = Catalog[i].code

\* elapsed minutes of a relative label H:MM
ElapsedOf(label) ==
    DecValue(SubSeq(label, 1, Len(label) - 3)) * 60
        + DecValue(SubSeq(label, Len(label) - 1, Len(label)))

\* C1: the cell at (catalog row i, column j) is populated if and only if the map
\* has a non-empty list under the key of column j whose first element has the
\* behavior code of catalog entry i; the cell then holds formatCell of that element
\* (sheet row 5+i, sheet column 2+j, i and j counted from 0), and every other grid
\* cell is empty.
C1_CellsExact ==
    \A sh \in BuiltSheets :
        /\ \A i \in 1..Len(Catalog) : \A j \in 1..Len(sh.timeSlots) :
              /\ (<<4 + i, 1 + j>> \in DOMAIN sh.cells) <=> FirstElementIs(sh.timeSlots[j], i)
              /\ FirstElementIs(sh.timeSlots[j], i) =>
                    sh.cells[<<4 + i, 1 + j>>] = ExpectedCell(observations[sh.timeSlots[j]][1])
        /\ \A a \in GridCells(sh) : a[2] <= 1 + Len(sh.timeSlots)

\* C2: the column set depends only on the session start and end: the header row
\* is the relative label of each enumerated slot, in order, whatever the map holds.
C2_HeadersFromSession ==
    \A sh \in BuiltSheets :
        /\ HeaderCells(sh) = {<<4, 1 + k>> : k \in 1..SlotCount}
        /\ \A k \in 1..SlotCount : sh.cells[<<4, 1 + k>>] = ElapsedLabel(5 * (k - 1))

\* C3: an observation whose time key is not in the enumerated slot sequence never
\* appears in the output: it creates no column, no header and no cell, and no
\* error is raised.
C3_OffGridDropped ==
    /\ ~goSheet.panicked
    /\ \A sh \in BuiltSheets :
          \A key \in DOMAIN observations :
              (Len(observations[key]) > 0 /\ \A k \in 1..SlotCount : EnumeratedSlots[k] # key) =>
                  /\ \A j \in 1..Len(sh.timeSlots) : sh.timeSlots[j] # key
                  /\ Cardinality(HeaderCells(sh)) = SlotCount
                  /\ \A a \in GridCells(sh) :
                        \E k \in 1..SlotCount :
                            /\ a[2] = 1 + k
                            /\ EnumeratedSlots[k] \in DOMAIN observations

\* C4: for a slot whose list holds two or more observations only the element at
\* index 0 can produce a cell, so each column has at most one populated cell.
C4_FirstElementOnly ==
    \A sh \in BuiltSheets :
        \A j \in 1..Len(sh.timeSlots) :
            /\ Cardinality({a \in GridCells(sh) : a[2] = 1 + j}) <= 1
            /\ \A a \in GridCells(sh) :
                  a[2] = 1 + j => FirstElementIs(sh.timeSlots[j], a[1] - 4)

\* C7: in both implementations the header-row relative labels are strictly
\* increasing in elapsed minutes from left to right, and the first header is 0:00
\* when the first column is the start slot.
C7_HeadersIncreasing ==
    \A sh \in BuiltSheets :
        /\ \A a \in HeaderCells(sh) : \A b \in HeaderCells(sh) :
              a[2] < b[2] => ElapsedOf(sh.cells[a]) < ElapsedOf(sh.cells[b])
        /\ (Len(sh.timeSlots) > 0 /\ sh.timeSlots[1] = metadata.startTime)
              => sh.cells[<<4, 2>>] = <<"0", ":", "0", "0">>

\* C9: every produced grid has exactly one row per Behavior Catalog entry (21
\* rows, sheet rows 5 to 25), in catalog order from eating_food_platform to the
\* terminal entry other labelled Other, whatever the time-slot map contains.
C9_RowsAreCatalog ==
    \A sh \in BuiltSheets :
        /\ Len(Catalog) = 21
        /\ Catalog[1].code = "eating_food_platform"
        /\ Catalog[21].code = "other"
        /\ \A i \in 1..21 :
              /\ <<4 + i, 1>> \in DOMAIN sh.cells
              /\ sh.cells[<<4 + i, 1>>] = Catalog[i].label
        /\ sh.cells[<<5, 1>>] = "Eating - On Food Platform"
        /\ sh.cells[<<25, 1>>] = "Other"
        /\ {a[1] : a \in {b \in DOMAIN sh.cells : b[1] >= 5 /\ b[1] <= 27}}
              = 5..25

\* both builders have run on the empty map
C9_Witness ==
    /\ tsSheet.built
    /\ goSheet.built
    /\ DOMAIN observations = {}

\* the behavior code is one of the catalog's
InCatalog(code) == \E i \in 1..Len(Catalog) : Catalog[i].code = code

\* the map without the observations whose behavior code is not in the catalog
WithoutUncatalogued(m) ==
    [k \in DOMAIN m |-> SelectSeq(m[k], LAMBDA o : InCatalog(FieldOr(o, "behavior")))]

\* the populated cells of the grid with their contents
Grid(sh) == [a \in GridCells(sh) |-> sh.cells[a]]

\* the map holds an observation whose behavior code is not in the catalog
HoldsUncatalogued ==
    \E k \in DOMAIN observations : \E i \in 1..Len(observations[k]) :
        ~InCatalog(FieldOr(observations[k][i], "behavior"))

\* C12: an observation whose behavior code is not in the Behavior Catalog matches no
\* row: no error is raised, a column whose observations are all of this kind has no
\* cell, and the grid is exactly the grid built from the map without these
\* observations.
C12_UncataloguedIsNoOp ==
    /\ ~goSheet.panicked
    /\ \A sh \in BuiltSheets : \A j \in 1..Len(sh.timeSlots) :
          (/\ sh.timeSlots[j] \in DOMAIN observations
           /\ Len(observations[sh.timeSlots[j]]) > 0
           /\ Len(WithoutUncatalogued(observations)[sh.timeSlots[j]]) = 0)
          => \A a \in GridCells(sh) : a[2] # j + 1
    /\ tsSheet.built =>
          Grid(tsSheet) =
              Grid(generateExcelWorkbook(metadata, WithoutUncatalogued(observations)))
    /\ goSheet.built =>
          Grid(goSheet) =
              Grid(GenerateObservationExcel(metadata, WithoutUncatalogued(observations)))

(***************************************************************************)
(* Properties over loosely shaped times (SpecLoose)                        *)
(***************************************************************************)
\* the value of a component: 0 when it is missing, empty or not a number
ComponentOrZero(parts, i) ==
    IF i <= Len(parts) /\ Len(parts[i]) > 0 /\ (\A k \in 1..Len(parts[i]) : IsDigit(parts[i][k]))
    THEN DecValue(parts[i])
    ELSE 0

\* the text before the first colon and the text after it
ColonParts(t) ==
    LET colons == {i \in 1..Len(t) : t[i] = ":"}
        first == IF colons = {} THEN Len(t) + 1
                 ELSE CHOOSE i \in colons : \A j \in colons : i <= j
    IN IF colons = {} THEN <<t>>
       ELSE <<SubSeq(t, 1, first - 1), SubSeq(t, first + 1, Len(t))>>

\* minute of the day of a time whose unreadable components count as 0
LooseMinutes(t) == ComponentOrZero(ColonParts(t), 1) * 60 + ComponentOrZero(ColonParts(t), 2)

\* the slots from start to end, both read with unreadable components as 0
LooseSlots(startTime, endTime) ==
    LET s == LooseMinutes(startTime)
        e == LooseMinutes(endTime)
    IN [k \in 1..((((e + 1440 - s) % 1440) \div 5) + 1) |-> TimeOfDay(s + 5 * (k - 1))]

\* the elapsed label of time t after the start, both read the same way
LooseLabel(t, startTime) ==
    ElapsedLabel((LooseMinutes(t) + 1440 - LooseMinutes(startTime)) % 1440)

\* C13: the time arithmetic and the grid builder are total: for a start, end or
\* slot-key string whose hour or minute component is missing (no colon) or
\* non-numeric, nothing throws or panics, and the slots, the elapsed labels and the
\* columns of the grid are those computed with that component taken as 0.
C13_TotalOnLooseTimes ==
    /\ ~rel.panic
    /\ ~goSheet.panicked
    /\ slots.called => slots.result = LooseSlots(metadata.startTime, metadata.endTime)
    /\ rel.impl # "none" => rel.value = LooseLabel(rel.time, metadata.startTime)
    /\ tsSheet.built => tsSheet.timeSlots = LooseSlots(metadata.startTime, metadata.endTime)

(***************************************************************************)
(* Properties of interleaved builder invocations (SpecPure)                *)
(***************************************************************************)
\* the invocation has returned its sheet
Returned(c) == calls[c].pc = "done"

\* C14: building the grid is a pure function: two invocations of a builder on the
\* same metadata and time-slot map, in sequence or interleaved, return equal grids
\* (the grid of an invocation run alone), and no step changes the metadata or the map.
C14_PureBuilder ==
    /\ [](\A c \in Invocations : \A d \in Invocations :
             (c.impl = d.impl /\ Returned(c) /\ Returned(d)) =>
                 /\ calls[c].cells = calls[d].cells
                 /\ calls[c].timeSlots = calls[d].timeSlots)
    /\ [](\A c \in Invocations :
             Returned(c) =>
                 calls[c].cells =
                     IF c.impl = "ts"
                     THEN generateExcelWorkbook(metadata, observations).cells
                     ELSE GenerateObservationExcel(metadata, observations).cells)
    /\ [][metadata' = metadata /\ observations' = observations]_vars

\* both Go invocations have returned after ranging over the three keys in different
\* orders, and both TypeScript invocations have returned
C14_Witness ==
    /\ \A c \in Invocations : Returned(c)
    /\ Len(calls[[impl |-> "go", n |-> 1]].ranged) = 3
    /\ calls[[impl |-> "go", n |-> 1]].ranged # calls[[impl |-> "go", n |-> 2]].ranged
    /\ calls[[impl |-> "go", n |-> 1]].timeSlots = calls[[impl |-> "go", n |-> 2]].timeSlots

(***************************************************************************)
(* Properties of the submit and share handlers (SpecRoutes)                *)
(***************************************************************************)
\* the request has been answered
Answered == req.pc = "done"

\* the request's recipients
Recipients == req.emails.list

\* generateExcelBuffer was called for the request and threw
ExcelFailed == req.generated = 1 /\ req.buffer = 0

\* generateExcelBuffer was called for the request and returned a buffer
ExcelSucceeded == req.generated = 1 /\ req.buffer # 0

\* number of sends of the request that reported success
SuccessfulSends == Cardinality({k \in 1..Len(req.sends) : req.sends[k].ok})

\* C15: in POST /submit, once the insert has succeeded, a failure of the Excel
\* generation neither undoes nor fails the submission: the answer is 201 with the
\* submission id and emailsSent = 0, no send is attempted, and the stored row
\* remains (no step ever removes a row).
C15_ExcelFailureKeepsSubmission ==
    /\ []((req.kind = "submit" /\ req.submissionId # 0 /\ ExcelFailed) =>
            /\ Answered
            /\ req.status = 201
            /\ req.emailsSent = 0
            /\ req.sends = <<>>
            /\ req.submissionId \in db)
    /\ [][db \subseteq db']_vars

\* a submit with two recipients whose spreadsheet could not be generated
C15_Witness ==
    /\ req.kind = "submit"
    /\ Answered
    /\ ExcelFailed
    /\ Len(Recipients) = 2
    /\ req.status = 201
    /\ req.submissionId \in db

\* C16: per submit or share request the spreadsheet buffer is generated at most
\* once, before the first send; each send gets that same buffer; the sends go to the
\* recipients in list order, one each, to all n of them once the buffer exists and
\* the request is answered; a submit without recipients or with an empty list
\* generates no buffer and sends nothing.
C16_OneBufferForAllSends ==
    /\ req.generated <= 1
    /\ Len(req.sends) <= Len(Recipients)
    /\ \A k \in 1..Len(req.sends) :
          /\ ExcelSucceeded
          /\ req.sends[k].buffer = req.buffer
          /\ req.sends[k].to = Recipients[k]
    /\ (Answered /\ ExcelSucceeded) => Len(req.sends) = Len(Recipients)
    /\ (req.kind = "submit" /\ Len(Recipients) = 0) =>
          req.generated = 0 /\ req.sends = <<>>

\* a share request answered after two sends of the one buffer
C16_Witness ==
    /\ req.kind = "share"
    /\ Answered
    /\ req.generated = 1
    /\ Len(req.sends) = 2
    /\ req.sends[1].buffer = req.sends[2].buffer
    /\ req.sends[1].to = "b@example.org"
    /\ req.sends[2].to = "a@example.org"

\* C17: at most 3 share requests per observation per hour pass the rate limit: for
\* every observation id, any period of one hour holds at most 3 passes; a request
\* answered 429 RATE_LIMIT_EXCEEDED generates nothing and sends nothing.
C17_ThreeSharesPerHour ==
    /\ \A id \in DOMAIN passes : \A k \in 1..Len(passes[id]) :
          Cardinality({j \in 1..Len(passes[id]) :
                          /\ passes[id][j] >= passes[id][k]
                          /\ passes[id][j] < passes[id][k] + 60 * 60 * 1000}) <= 3
    /\ (Answered /\ req.status = 429) =>
          /\ req.code = "RATE_LIMIT_EXCEEDED"
          /\ req.generated = 0
          /\ req.sends = <<>>

\* C18: every recipient is attempted even after earlier sends failed, and emailsSent
\* is the number of sends that reported success; submit answers 201 whatever that
\* number is, share answers 200 when it is at least 1 and 500 EMAIL_ERROR when it is 0.
C18_EveryRecipientAttempted ==
    /\ req.emailsSent = SuccessfulSends
    /\ (Answered /\ ExcelSucceeded) =>
          /\ Len(req.sends) = Len(Recipients)
          /\ req.kind = "submit" => req.status = 201
          /\ (req.kind = "share" /\ req.emailsSent >= 1) => req.status = 200
          /\ (req.kind = "share" /\ req.emailsSent = 0) =>
                req.status = 500 /\ req.code = "EMAIL_ERROR"

\* a share whose first send failed and whose second succeeded, answered 200
C18_Witness ==
    /\ req.kind = "share"
    /\ Answered
    /\ Len(req.sends) = 2
    /\ ~req.sends[1].ok
    /\ req.sends[2].ok
    /\ req.emailsSent = 1
    /\ req.status = 200

\* the end of the submitted session is not after its start
EndNotAfterStart(r) ==
    /\ IsHHMM(r.startTime)
    /\ IsHHMM(r.endTime)
    /\ MinutesOf(r.endTime) <= MinutesOf(r.startTime)

\* C19: POST /submit answers 400 VALIDATION_ERROR whenever endTime is not after
\* startTime; nothing is inserted, no spreadsheet is generated and no email is sent.
C19_EndMustFollowStart ==
    /\ []((req.kind = "submit" /\ EndNotAfterStart(req)) =>
            /\ Answered
            /\ req.status = 400
            /\ req.code = "VALIDATION_ERROR"
            /\ req.submissionId = 0
            /\ req.generated = 0
            /\ req.sends = <<>>)
    /\ [][(req'.kind = "submit" /\ EndNotAfterStart(req')) => db' = db]_vars

\* a submit whose end equals its start, with recipients, answered 400
C19_Witness ==
    /\ req.kind = "submit"
    /\ req.startTime = TimeStr(14, 0)
    /\ req.endTime = TimeStr(14, 0)
    /\ Len(Recipients) = 2
    /\ Answered
    /\ req.status = 400

(***************************************************************************)
(* Properties of the file names (SpecNames)                                *)
(***************************************************************************)
SafeText == "abcdefghijklmnopqrstuvwxyzABCDEFGHIJKLMNOPQRSTUVWXYZ0123456789-_"

\* the character is a letter, a digit, a hyphen or an underscore
IsSafeChar(c) == \E i \in 1..Len(SafeText) : SubSeq(SafeText, i, i) = c

\* text t is text s with every unsafe character replaced by one underscore
IsCleaned(t, s) ==
    /\ Len(t) = Len(s)
    /\ \A i \in 1..Len(s) :
          SubSeq(t, i, i) = (IF IsSafeChar(SubSeq(s, i, i)) THEN SubSeq(s, i, i) ELSE "_")

\* the name is ethogram-<subject>-<date>.xlsx with subject and date cleaned
IsReportName(name, subject, date) ==
    LET n == Len(subject)
        d == Len(date)
    IN /\ Len(name) = 9 + n + 1 + d + 5
       /\ SubSeq(name, 1, 9) = "ethogram-"
       /\ IsCleaned(SubSeq(name, 10, 9 + n), subject)
       /\ SubSeq(name, 10 + n, 10 + n) = "-"
       /\ IsCleaned(SubSeq(name, 11 + n, 10 + n + d), date)
       /\ SubSeq(name, 11 + n + d, 15 + n + d) = ".xlsx"

\* C20: every file name given to a serialized spreadsheet (email attachment, download
\* Content-Disposition) is ethogram-<subject>-<date>.xlsx, subject and date sanitized
\* character by character: letters, digits, hyphen and underscore kept, every other
\* character replaced by one underscore, the length unchanged.
C20_ReportFilename ==
    file.route # "none" => IsReportName(file.filename, file.patient, file.date)

(***************************************************************************)
(* The order of the share handler's steps                                  *)
(***************************************************************************)
\* the share request that has just been received
ShareArrives == nreq' = nreq + 1 /\ req'.kind = "share"

\* the entry of id can deny a request made now
QuotaExhausted(id) ==
    /\ id \in DOMAIN store
    /\ now - store[id].windowStart < windowMs
    /\ store[id].count >= maxRequests

\* the requests counted for id in the store st
Counted(st, id) == IF id \in DOMAIN st THEN st[id].count ELSE 0

\* C21: in the share handler the rate-limit check runs after the body
\* validation and before the database lookup: a request with an invalid body
\* is answered 400 and leaves the store as it was; a request with a valid
\* body is counted whether or not its id is in the table, and only then
\* queries the database; when the id's quota is exhausted the request is
\* answered 429, changes nothing and never queries the database.
C21_RateLimitBetweenParseAndFetch ==
    /\ [](req.kind = "share" /\ req.status = 429 => req.queries = 0)
    /\ [](req.kind = "share" /\ req.queries > 0 =>
             /\ shareBodySchema(req.emails.list)
             /\ req.id \in DOMAIN passes)
    /\ [][ShareArrives =>
             LET id == req'.id
                 valid == shareBodySchema(req'.emails.list)
             IN /\ ~valid => /\ store' = store
                             /\ req'.status = 400 /\ req'.code = "VALIDATION_ERROR"
                /\ valid /\ QuotaExhausted(id) =>
                      /\ store' = store
                      /\ req'.status = 429 /\ req'.code = "RATE_LIMIT_EXCEEDED"
                      /\ req'.pc = "done"
                /\ valid /\ ~QuotaExhausted(id) =>
                      /\ Counted(store', id) \in {1, Counted(store, id) + 1}
                      /\ req'.pc = "fetch" /\ req'.queries = 0
                      /\ \A k \in DOMAIN store \ {id} : store'[k] = store[k]]_vars

\* a request for an id that was never stored is answered 429 after three
\* requests for that id passed the limiter, and a request for it was
\* answered 404 before
C21_Witness ==
    /\ req.kind = "share" /\ req.status = 429
    /\ req.id \notin db
    /\ req.id \in DOMAIN passes /\ Len(passes[req.id]) = maxRequests
    /\ req.queries = 0

(***************************************************************************)
(* The two builders compared (SpecExcel)                                   *)
(***************************************************************************)
\* the header labels with their columns
HeaderLabels(sh) == [a \in HeaderCells(sh) |-> sh.cells[a]]

\* the behavior labels with their rows
RowLabels(sh) == [a \in {b \in DOMAIN sh.cells : b[1] >= 5 /\ b[1] <= 25 /\ b[2] = 1} |->
                     sh.cells[a]]

\* C22: on the same session metadata and time-slot map generateExcelWorkbook and
\* GenerateObservationExcel produce the same grid: the same header labels in the
\* same columns, the same behavior labels in the same rows, and the same cell
\* contents at the same positions.
C22_SameGrid ==
    (tsSheet.built /\ (goSheet.built \/ goSheet.panicked)) =>
        /\ goSheet.built
        /\ HeaderLabels(tsSheet) = HeaderLabels(goSheet)
        /\ RowLabels(tsSheet) = RowLabels(goSheet)
        /\ Grid(tsSheet) = Grid(goSheet)

(***************************************************************************)
(* Properties of the Go observation service (SpecService)                  *)
(***************************************************************************)
\* the goroutines started by Create
CreateGoroutines == {g \in 1..Len(svc.goroutines) : svc.goroutines[g].origin = "create"}

\* C23: Create saves first: a goroutine that generates and sends exists only for
\* an observation that repo.Create stored and that has recipients; a Create whose
\* repo.Create failed (or whose date did not parse) starts none; no step of a
\* goroutine changes a stored observation; and a Create whose observation is
\* stored returns that observation, whatever happens to generation and sending.
C23_SavedBeforeSending ==
    /\ [](\A g \in CreateGoroutines :
             LET w == svc.goroutines[g]
             IN /\ w.obs \in 1..Len(svc.table)
                /\ Len(w.emails) > 0
                /\ svc.table[w.obs].emails = w.emails)
    /\ [](svc.create.result = "error" =>
             /\ svc.create.goroutine = 0
             /\ svc.create.obs = 0)
    /\ [](svc.create.pc = "save" => svc.create.goroutine = 0)
    /\ []((svc.create.goroutine # 0) =>
             svc.goroutines[svc.create.goroutine].obs = svc.create.obs)
    /\ [][\A i \in 1..Len(svc.table) : svc'.table[i] = svc.table[i]]_vars
    /\ []((svc.create.obs # 0 /\ svc.create.result = "none") => svc.alive)
    /\ []((svc.create.obs # 0 /\ svc.create.result # "none") => svc.create.result = "obs")

\* the failed attempts of a goroutine
Failures(w) == Cardinality({k \in 1..Len(w.attempts) : ~w.attempts[k]})

\* where the g-th goroutine is, "none" before it is started
PcOf(g) == IF g \in 1..Len(svc.goroutines) THEN svc.goroutines[g].pc ELSE "none"

\* the smaller of two numbers
Least(a, b) == IF a < b THEN a ELSE b

EntryOf(keys, k) == IF k \in DOMAIN keys THEN keys[k] ELSE <<>>

\* C25: the middleware fails open: a request whose Redis operation returned an
\* error goes to the next handler and is never answered 429; a request whose
\* Redis operation returned a count is answered 429 exactly when the count is
\* greater than maxRequests; and the entry of a client IP changes only by a
\* command sent for a request of that IP (or by its expiry).
C25_FailsOpen ==
    /\ [](redis.last.err => redis.last.outcome = "next")
    /\ []((~redis.last.err /\ redis.last.outcome # "none") =>
             /\ redis.last.outcome \in {"next", "429"}
             /\ (redis.last.outcome = "429") <=> (redis.last.count > rlMaxRequests))
    /\ [][redis'.clock = redis.clock =>
             \A k \in ClientIPs :
                 EntryOf(redis'.keys, k) # EntryOf(redis.keys, k) =>
                     /\ \E p \in 1..Len(redis.inflight) :
                           /\ redis.inflight[p].ip = k
                           /\ redis.inflight[p].cmds # <<>>
                     /\ \A j \in ClientIPs \ {k} :
                           EntryOf(redis'.keys, j) = EntryOf(redis.keys, j)]_vars

\* Redis failed for a request of a client that is over the limit, and the
\* request went to the next handler
C25_Witness ==
    /\ redis.last.err
    /\ redis.last.outcome = "next"
    /\ redis.last.ip \in DOMAIN redis.keys
    /\ redis.keys[redis.last.ip].count > rlMaxRequests

\* C27: every counter key that exists has an expiry, and the expiry is the time
\* of the request that created the key plus windowPeriod, whatever requests
\* arrive meanwhile, however the commands of concurrent requests interleave, and
\* whether or not the process crashes.
C27_ExpiryFixedByFirstRequest ==
    \A k \in DOMAIN redis.keys :
        /\ redis.keys[k].expireAt # NoExpiry
        /\ redis.keys[k].expireAt = redis.keys[k].created + windowPeriod

(***************************************************************************)
(* Properties of the migration runner (SpecMigrate)                        *)
(***************************************************************************)
\* the sequence is strictly increasing in the order of .sort()
Increasing(seq) == \A i \in 1..(Len(seq) - 1) : StrLess(seq[i], seq[i + 1])

\* C28: the migration runner is idempotent and atomic per file: over any number
\* of runs every migration file has its SQL committed at most once; a run
\* commits its files in sorted file-name order; the SQL of a file is committed
\* exactly when its row in the migrations table is; and a run stops at the
\* file that fails: what it committed is the files before it, and after its
\* exit it commits nothing.
C28_IdempotentAtomicMigrations ==
    /\ [](\A i \in 1..Len(mig.schema) : \A j \in 1..Len(mig.schema) :
             mig.schema[i] = mig.schema[j] => i = j)
    /\ []({mig.schema[i] : i \in 1..Len(mig.schema)} = mig.table)
    /\ [](\A f \in mig.table : [name |-> f, ext |-> ".sql"] \in mig.dir)
    /\ [](\A p \in Runners :
             LET r == mig.runs[p]
             IN /\ Increasing(r.pending)
                /\ Increasing(r.committed)
                /\ Len(r.committed) <= Len(r.pending)
                /\ r.committed = SubSeq(r.pending, 1, Len(r.committed))
                /\ r.pc = "complete" => r.committed = r.pending
                /\ r.pc = "exited" => Len(r.committed) \in {r.i - 1, r.i} \cap (0..Len(r.pending)))
    /\ [][\A p \in Runners :
             (mig.runs[p].pc = "exited" /\ mig'.nruns = mig.nruns) =>
                 mig'.runs[p] = mig.runs[p]]_vars

\* after two starts of the script three files are applied, each once, and the
\* second start found something pending
C28_Witness ==
    /\ mig.nruns >= 2
    /\ Len(mig.schema) = 3
    /\ \E p \in Runners : mig.runs[p].pc = "complete" /\ Len(mig.runs[p].committed) >= 1
    /\ \E p \in Runners : mig.runs[p].pc = "exited" /\ mig.runs[p].i >= 1

(***************************************************************************)
(* Properties of the in-memory rate limiter (SpecLimiter)                  *)
(***************************************************************************)
\* C29: the cleanup timer removes only entries that can no longer deny a
\* request: however its callbacks interleave with checkRateLimit calls, every
\* call is allowed or denied as it would be if the cleanup never ran.
C29_CleanupChangesNoResult ==
    lim.last.op = "check" => lim.last.allowed = lim.last.refAllowed

\* a call of one of the limiter's functions has just returned
LimiterCalled == lim'.ncalls = lim.ncalls + 1

\* C30: with fixed options, maxRequests >= 1: every stored entry has a count
\* from 1 to maxRequests; a denied call leaves the store unchanged; a call for
\* one key never changes the entry of another key; an allowed call returns
\* remaining = maxRequests - count >= 0 and a denied call returns remaining = 0;
\* and the resetAt returned is the windowStart of the key's entry plus windowMs.
C30_LimiterInvariants ==
    /\ [](\A k \in DOMAIN store :
             store[k].count >= 1 /\ store[k].count <= lim.options.maxRequests)
    /\ [][(LimiterCalled /\ lim'.last.op = "check" /\ ~lim'.last.allowed) =>
             store' = store]_vars
    /\ [][(LimiterCalled /\ lim'.last.op \in {"check", "reset"}) =>
             \A k \in LimiterKeys \ {lim'.last.key} :
                 EntryOf(store', k) = EntryOf(store, k)]_vars
    /\ [][(LimiterCalled /\ lim'.last.op = "check") =>
             LET r == lim'.last
             IN /\ r.key \in DOMAIN store'
                /\ r.allowed =>
                      /\ r.remaining = lim.options.maxRequests - store'[r.key].count
                      /\ r.remaining >= 0
                /\ ~r.allowed => r.remaining = 0
                /\ r.resetAt = store'[r.key].windowStart + lim.options.windowMs]_vars

\* a call was denied for a key whose entry is at maxRequests, after time passed
C30_Witness ==
    /\ lim.last.op = "check"
    /\ ~lim.last.allowed
    /\ store[lim.last.key].count = lim.options.maxRequests
    /\ now > store[lim.last.key].windowStart

(***************************************************************************)
(* The relative labels of the longest sessions (SpecTime)                  *)
(***************************************************************************)
\* the session is one of the longest that two HH:MM times can express: it ends
\* at most MaxGap minutes before its start comes round again
LongSession == (EndMin + 1440 - StartMin) % 1440 >= 1440 - MaxGap

\* the header row has a label of 24 hours or more
ReachesNextDay(headerRow) ==
    \E a \in DOMAIN headerRow : ElapsedOf(headerRow[a]) >= 24 * 60

\* C26: the hour component of the relative label is unbounded: for a long session
\* the header row of the builder, in both implementations, has labels of 24
\* hours or more.
C26_LongSessionsPassOneDay ==
    (slots.called /\ LongSession) =>
        /\ ReachesNextDay(TsHeaderRow(slots.result, metadata))
        /\ ReachesNextDay(GoHeaderRow(
               SortStrings({slots.result[k] : k \in 1..Len(slots.result)}), metadata))
====
